---- MODULE Spec2Model ----
(***************************************************************************)
(* A model of the FIDO2 / CTAP2 authenticator core of                      *)
(* components/fido-authenticator/src/lib.rs: the dispatcher (poll), the    *)
(* PIN protocol v1 (client_pin), pin_prechecks, MakeCredential and the     *)
(* credential lookup of GetAssertion.                                      *)
(*                                                                         *)
(* Byte strings and keys are symbolic.  A key generated by the crypto      *)
(* service is named by the position it takes in the service's key store;   *)
(* objects derived from keys (public keys, ECDH results, derived keys) are *)
(* named by their derivation.  A panic of the Rust code (unwrap / expect / *)
(* todo!) halts the authenticator.                                         *)
(***************************************************************************)
EXTENDS Integers, Sequences, FiniteSets, TLC

VARIABLES
    state,      \* Authenticator.state : State                (lib.rs 70-80)
    crypto,     \* the crypto service's stores: keys and blobs
    recv,       \* rpc.recv : requests from the host
    send,       \* rpc.send : responses to the host
    halted,     \* TRUE once the authenticator has panicked
    issued,     \* credential ids the host has received from MakeCredential
    made,       \* the number of MakeCredential requests the host has submitted
    wrong_kaks, \* history: the key agreement keys of the GetPinToken commands
                \* with a wrong PIN hash that followed one another since the
                \* state with a PIN set, 8 retries and no mismatch
    pending     \* the position of poll() inside a command: the request it
                \* took and the crypto-service calls answered so far; None
                \* when poll() is not inside a command

vars == <<state, crypto, recv, send, halted, issued, made, wrong_kaks, pending>>

----------------------------------------------------------------------------
(* Bounds of the model *)

\* the host submits no further request once the key store holds this many keys
MaxKeys == 9
\* a crypto-service failure can hit any of the first MaxCalls calls of a command
MaxCalls == 8
\* requests in flight (recv and send together) in the dispatcher specification
QueueCap == 2
\* longest pub_key_cred_params list the host submits
MaxAlgs == 3
\* MakeCredential requests the host submits
MaxMade == 1

(* Program constants *)

INITIAL_RETRIES == 8
MISMATCH_LIMIT == 3
PIN_PADDED_LEN == 64
PIN_MIN_LEN == 4
PIN_AUTH_LEN == 16
PIN_TOKEN_ENC_LEN == 32
COSE_P256 == -7
COSE_ED25519 == -8
SIGN_COUNT == 123

----------------------------------------------------------------------------
(* Option and Result *)

None == <<>>
Some(v) == <<v>>
IsSome(o) == o # <<>>
Unwrap(o) == o[1]

Ok(v) == [ok |-> TRUE, err |-> "", val |-> v]
Err(e) == [ok |-> FALSE, err |-> e, val |-> <<>>]

----------------------------------------------------------------------------
(* Object handles and symbolic byte strings *)

\* the handle of the n-th key the service generated
GenHandle(n) == [kind |-> "gen", a |-> n, b |-> 0]
\* the public key of the private key with id n (id 0: the platform's key)
PubOf(n) == [kind |-> "pub", a |-> n, b |-> 0]
\* raw ECDH output of private key n with the public key of private key m
DhOf(n, m) == [kind |-> "dh", a |-> IF n < m THEN n ELSE m, b |-> IF n < m THEN m ELSE n]
\* SHA-256 of an ECDH output, used as a key
KdfOf(dh) == [kind |-> "ss", a |-> dh.a, b |-> dh.b]

PlatformKey == PubOf(0)
\* the shared secret the platform computes against key agreement key n
PlatformShared(n) == KdfOf(DhOf(0, n))

Sha256(msg) == [sha256 |-> msg]
Left16(h) == [left16 |-> h.sha256]
\* a 16-byte string that is the hash prefix of no PIN of the model
Garbage16 == [left16 |-> <<-1>>]
\* a 64-byte string without NUL
Garbage64 == [i \in 1..PIN_PADDED_LEN |-> 255]

\* data: the sequence of the parts that were concatenated
Hmac(key, data) == [mac_key |-> key, data |-> data]
AesEnc(key, pt) == [aes_key |-> key, pt |-> pt, wellformed |-> TRUE]

\* wrap_key_aes256cbc of a 32-byte HMAC key: two CBC blocks of 16 bytes
WrappedKeyLen(key) == IF key.kind = "gen" THEN 32 ELSE 0

\* a pin_auth value: its length and, for 16 bytes, the tag they spell
PinAuth(len, tag) == [len |-> len, tag |-> tag]

----------------------------------------------------------------------------
(* The execution context of one command: the authenticator state, the      *)
(* crypto service, the crypto calls made so far, the call that fails       *)
(* (0: none), the answers of the user-presence source and how often it was *)
(* asked, and the outcome of the comparison of the decrypted PIN hash with *)
(* the stored one ("none" when the command made no such comparison).       *)

Ctx(st, cr, failAt, up, oc) ==
    [state |-> st, crypto |-> cr, calls |-> 0, failAt |-> failAt,
     up |-> up, ups |-> 0, overflow_checks |-> oc, pin_hash_check |-> "none"]

\* the outcome of a step: the context, whether the code panicked, the value
Ret(c, v) == [c |-> c, panic |-> FALSE, v |-> v]
Panic(c) == [c |-> c, panic |-> TRUE, v |-> Err("Panic")]

----------------------------------------------------------------------------
(* Crypto service: each call either fails (the client or the service       *)
(* reports an error) or answers.                                           *)

Called(c) == [c EXCEPT !.calls = @ + 1]
Fails(c) == c.calls + 1 = c.failAt

\* generate_*_key(location): a new key object with a fresh handle
GenerateKey(c, mech, loc) ==
    IF Fails(c) THEN [c |-> Called(c), ok |-> FALSE, key |-> GenHandle(0)]
    ELSE [c |-> [Called(c) EXCEPT !.crypto.keys = Append(@, [mech |-> mech, loc |-> loc])],
          ok |-> TRUE,
          key |-> GenHandle(Len(c.crypto.keys) + 1)]

\* decrypt_aes256cbc: CBC has no integrity, a wrong key yields garbage
DecryptAes256Cbc(key, ct, garbage) ==
    IF ct.aes_key = key THEN ct.pt ELSE garbage

\* exists(mechanism, handle)
Exists(c, mech, key) ==
    /\ key.kind = "gen"
    /\ key.a \in 1..Len(c.crypto.keys)
    /\ c.crypto.keys[key.a].mech = mech

\* n consecutive syscall!-wrapped calls that create no generated key: the
\* macro panics when the client or the service reports an error
Syscalls(c, n) ==
    IF c.failAt \in (c.calls + 1)..(c.calls + n)
    THEN Panic([c EXCEPT !.calls = c.failAt])
    ELSE Ret([c EXCEPT !.calls = @ + n], TRUE)

----------------------------------------------------------------------------
(* Let([x \in {v} |-> e]) is e with x the value of v: it names the outcome *)
(* of a step so that the steps after it read it without repeating it.      *)

Only(S) == CHOOSE v \in S : TRUE
Let(f) == Only({g[Only(DOMAIN g)] : g \in {f}})

----------------------------------------------------------------------------
(* State accessors (lib.rs 142-232) *)

\* mutant: a key agreement key that exists is kept
rotate_key_agreement_key_keeps(c) ==
    IF IsSome(c.state.key_agreement_key)
    THEN Ret(c, Ok(Unwrap(c.state.key_agreement_key)))
    ELSE Let([g \in {GenerateKey(c, "P256", "Volatile")} |->
         IF ~g.ok THEN Ret(g.c, Err("Other"))
         ELSE Ret([g.c EXCEPT !.state.key_agreement_key = Some(g.key)], Ok(g.key))])

rotate_key_agreement_key(c) ==
    Let([g \in {GenerateKey(c, "P256", "Volatile")} |->
    IF ~g.ok THEN Ret(g.c, Err("Other"))
    ELSE Ret([g.c EXCEPT !.state.key_agreement_key = Some(g.key)], Ok(g.key))])

key_agreement_key(c) ==
    IF IsSome(c.state.key_agreement_key)
    THEN Ret(c, Ok(Unwrap(c.state.key_agreement_key)))
    ELSE rotate_key_agreement_key(c)

rotate_key_encryption_key(c) ==
    Let([g \in {GenerateKey(c, "Chacha8Poly1305", "Volatile")} |->
    IF ~g.ok THEN Ret(g.c, Err("Other"))
    ELSE Ret([g.c EXCEPT !.state.key_encryption_key = Some(g.key)], Ok(g.key))])

key_encryption_key(c) ==
    IF IsSome(c.state.key_encryption_key)
    THEN Ret(c, Ok(Unwrap(c.state.key_encryption_key)))
    ELSE rotate_key_encryption_key(c)

\* rotate_pin_token uses syscall!: a failure panics
rotate_pin_token(c) ==
    Let([g \in {GenerateKey(c, "HmacSha256", "Volatile")} |->
    IF ~g.ok THEN Panic(g.c)
    ELSE Ret([g.c EXCEPT !.state.pin_token = Some(g.key)], Ok(g.key))])

\* mutant: a new PIN token on every use
pin_token_rotates(c) == rotate_pin_token(c)

pin_token(c) ==
    IF IsSome(c.state.pin_token)
    THEN Ret(c, Ok(Unwrap(c.state.pin_token)))
    ELSE rotate_pin_token(c)

\* retries(): initialises the counter on first use
retries(c) ==
    IF IsSome(c.state.retries)
    THEN Ret(c, Unwrap(c.state.retries))
    ELSE Ret([c EXCEPT !.state.retries = Some(INITIAL_RETRIES)], INITIAL_RETRIES)

\* mutant: sets retries to 8 and keeps the mismatch count
reset_retries_keeps_mismatches(c) ==
    [c EXCEPT !.state.retries = Some(INITIAL_RETRIES)]

reset_retries(c) ==
    [c EXCEPT !.state.retries = Some(INITIAL_RETRIES),
              !.state.consecutive_pin_mismatches = 0]

\* mutant: counts the mismatch but leaves retries as it is
decrement_retries_keeps_retries(c) ==
    IF ~IsSome(c.state.retries) THEN Panic(c)
    ELSE Ret([c EXCEPT !.state.consecutive_pin_mismatches = (@ + 1) % 256], TRUE)

\* mutant: decrements retries but does not count the mismatch
decrement_retries_keeps_mismatches(c) ==
    IF ~IsSome(c.state.retries) THEN Panic(c)
    ELSE IF Unwrap(c.state.retries) = 0 /\ c.overflow_checks THEN Panic(c)
    ELSE Ret([c EXCEPT !.state.retries = Some((Unwrap(@) - 1) % 256)], TRUE)

\* u8 arithmetic: with overflow checks the build panics, without it wraps
decrement_retries(c) ==
    IF ~IsSome(c.state.retries) THEN Panic(c)
    ELSE IF (Unwrap(c.state.retries) = 0 \/ c.state.consecutive_pin_mismatches = 255)
            /\ c.overflow_checks
    THEN Panic(c)
    ELSE Ret([c EXCEPT !.state.retries = Some((Unwrap(@) - 1) % 256),
                       !.state.consecutive_pin_mismatches = (@ + 1) % 256], TRUE)

pin_is_set_never(c) == FALSE

pin_is_set(c) == IsSome(c.state.pin_hash)

----------------------------------------------------------------------------
(* PIN protocol helpers (lib.rs 502-608) *)

\* generate_shared_secret: derive our public key, import the platform's key,
\* ECDH, SHA-256 as key derivation; all four calls are syscall!s
generate_shared_secret(c, platform_key_agreement_key) ==
    Let([k \in {key_agreement_key(c)} |->
    IF k.panic \/ ~k.v.ok THEN Panic(k.c) ELSE
    Let([r \in {Syscalls(k.c, 4)} |->
    IF r.panic THEN r
    ELSE Ret(r.c, Ok(KdfOf(DhOf(k.v.val.a, platform_key_agreement_key.a))))])])

\* verify_pin_auth: HMAC-SHA256(shared_secret, data)[..16] == pin_auth
verify_pin_auth(c, shared_secret, data, pin_auth) ==
    Let([r \in {Syscalls(c, 1)} |->
    IF r.panic THEN r
    ELSE IF pin_auth.len = PIN_AUTH_LEN /\ pin_auth.tag = Hmac(shared_secret, data)
    THEN Ret(r.c, Ok(TRUE))
    ELSE Ret(r.c, Err("PinAuthInvalid"))])

\* mutant: a pin_auth that fails verification counts as a PIN mismatch
verify_pin_counts(c, pin_auth, data) ==
    Let([k \in {pin_token(c)} |->
    IF k.panic THEN k ELSE
    Let([r \in {Syscalls(k.c, 1)} |->
    IF r.panic THEN r
    ELSE IF pin_auth.tag = Hmac(k.v.val, data)
    THEN Ret(r.c, Ok(TRUE))
    ELSE Ret([r.c EXCEPT !.state.consecutive_pin_mismatches = (@ + 1) % 256],
             Err("PinAuthInvalid"))])])

\* verify_pin: HMAC-SHA256(pin_token, data)[..16] == pin_auth (16 bytes)
verify_pin(c, pin_auth, data) ==
    Let([k \in {pin_token(c)} |->
    IF k.panic THEN k ELSE
    Let([r \in {Syscalls(k.c, 1)} |->
    IF r.panic THEN r
    ELSE IF pin_auth.tag = Hmac(k.v.val, data)
    THEN Ret(r.c, Ok(TRUE))
    ELSE Ret(r.c, Err("PinAuthInvalid"))])])

decrypt_pin_hash_and_maybe_escalate(c, shared_secret, pin_hash_enc) ==
    Let([d \in {Syscalls(c, 1)} |->
    IF d.panic THEN d
    ELSE IF ~pin_hash_enc.wellformed THEN Ret(d.c, Err("Other"))
    ELSE IF ~IsSome(d.c.state.pin_hash) THEN Ret(d.c, Err("InvalidCommand"))
    ELSE IF DecryptAes256Cbc(shared_secret, pin_hash_enc, Garbage16)
              = Unwrap(d.c.state.pin_hash)
    THEN Ret([d.c EXCEPT !.pin_hash_check = "match"], Ok(TRUE)) ELSE
    Let([k \in {rotate_key_agreement_key([d.c EXCEPT !.pin_hash_check = "mismatch"])} |->
    IF ~k.v.ok THEN k ELSE
    Let([n \in {retries(k.c)} |->
    IF n.v = 0 THEN Ret(n.c, Err("PinBlocked"))
    ELSE IF n.c.state.consecutive_pin_mismatches >= MISMATCH_LIMIT
    THEN Ret(n.c, Err("PinAuthBlocked"))
    ELSE Ret(n.c, Err("PinInvalid"))])])])

\* hash_store_pin: pin_hash := SHA-256(pin)[..16]
hash_store_pin(c, pin) ==
    Let([h \in {Syscalls(c, 1)} |->
    IF h.panic THEN h
    ELSE Ret([h.c EXCEPT !.state.pin_hash = Some(Left16(Sha256(pin)))], Ok(TRUE))])

\* position of the first NUL byte, or the length when there is none
RECURSIVE NulPosition(_, _)
NulPosition(bytes, i) ==
    IF i > Len(bytes) THEN Len(bytes)
    ELSE IF bytes[i] = 0 THEN i - 1
    ELSE NulPosition(bytes, i + 1)

decrypt_pin_check_length_unchopped(c, shared_secret, pin_enc) ==
    Let([d \in {Syscalls(c, 1)} |->
    IF d.panic THEN d
    ELSE IF ~pin_enc.wellformed THEN Ret(d.c, Err("Other")) ELSE
    Let([pin \in {DecryptAes256Cbc(shared_secret, pin_enc, Garbage64)} |->
    IF Len(pin) < PIN_PADDED_LEN THEN Ret(d.c, Err("PinPolicyViolation")) ELSE
    Let([pin_length \in {NulPosition(pin, 1)} |->
    IF pin_length < PIN_MIN_LEN THEN Ret(d.c, Err("PinPolicyViolation"))
    ELSE Ret(d.c, Ok(pin))])])])

\* mutant: accepts a padded PIN of any length
decrypt_pin_check_length_any_length(c, shared_secret, pin_enc) ==
    Let([d \in {Syscalls(c, 1)} |->
    IF d.panic THEN d
    ELSE IF ~pin_enc.wellformed THEN Ret(d.c, Err("Other")) ELSE
    Let([pin \in {DecryptAes256Cbc(shared_secret, pin_enc, Garbage64)} |->
    IF Len(pin) < PIN_PADDED_LEN THEN Ret(d.c, Err("PinPolicyViolation")) ELSE
    Let([pin_length \in {NulPosition(pin, 1)} |->
    Ret(d.c, Ok(SubSeq(pin, 1, pin_length)))])])])

decrypt_pin_check_length(c, shared_secret, pin_enc) ==
    Let([d \in {Syscalls(c, 1)} |->
    IF d.panic THEN d
    ELSE IF ~pin_enc.wellformed THEN Ret(d.c, Err("Other")) ELSE
    Let([pin \in {DecryptAes256Cbc(shared_secret, pin_enc, Garbage64)} |->
    IF Len(pin) < PIN_PADDED_LEN THEN Ret(d.c, Err("PinPolicyViolation")) ELSE
    Let([pin_length \in {NulPosition(pin, 1)} |->
    IF pin_length < PIN_MIN_LEN THEN Ret(d.c, Err("PinPolicyViolation"))
    ELSE Ret(d.c, Ok(SubSeq(pin, 1, pin_length)))])])])

----------------------------------------------------------------------------
(* client_pin (lib.rs 318-500) *)

ClientPinResponse(key_agreement, token, n) ==
    Ok([key_agreement |-> key_agreement, pin_token |-> token, retries |-> n])

client_pin_GetRetries(c) ==
    Let([n \in {retries(c)} |-> Ret(n.c, ClientPinResponse(None, None, Some(n.v)))])

\* mutant: answers with a key agreement key it has just generated
client_pin_GetKeyAgreement_rotates(c) ==
    Let([k \in {rotate_key_agreement_key(c)} |->
    IF k.panic \/ ~k.v.ok THEN Panic(k.c) ELSE
    Let([r \in {Syscalls(k.c, 2)} |->
    IF r.panic THEN r
    ELSE Ret(r.c, ClientPinResponse(Some(PubOf(k.v.val.a)), None, None))])])

client_pin_GetKeyAgreement(c) ==
    Let([k \in {key_agreement_key(c)} |->
    IF k.panic \/ ~k.v.ok THEN Panic(k.c) ELSE
    Let([r \in {Syscalls(k.c, 2)} |->
    IF r.panic THEN r
    ELSE Ret(r.c, ClientPinResponse(Some(PubOf(k.v.val.a)), None, None))])])

\* mutant: sets the PIN whether or not one is set
client_pin_SetPin_overwrites(c, parameters) ==
    IF ~IsSome(parameters.key_agreement) THEN Ret(c, Err("MissingParameter"))
    ELSE IF ~IsSome(parameters.new_pin_enc) THEN Ret(c, Err("MissingParameter"))
    ELSE IF ~IsSome(parameters.pin_auth) THEN Ret(c, Err("MissingParameter")) ELSE
    Let([s \in {generate_shared_secret(c, Unwrap(parameters.key_agreement))} |->
    IF s.panic \/ ~s.v.ok THEN s ELSE
    Let([a \in {verify_pin_auth(s.c, s.v.val, <<Unwrap(parameters.new_pin_enc)>>,
                                Unwrap(parameters.pin_auth))} |->
    IF a.panic \/ ~a.v.ok THEN a ELSE
    Let([n \in {decrypt_pin_check_length(a.c, s.v.val,
                                         Unwrap(parameters.new_pin_enc))} |->
    IF n.panic \/ ~n.v.ok THEN n ELSE
    Let([h \in {hash_store_pin(n.c, n.v.val)} |->
    IF h.panic \/ ~h.v.ok THEN h
    ELSE Ret(reset_retries(h.c), ClientPinResponse(None, None, None))])])])])

client_pin_SetPin(c, parameters) ==
    IF ~IsSome(parameters.key_agreement) THEN Ret(c, Err("MissingParameter"))
    ELSE IF ~IsSome(parameters.new_pin_enc) THEN Ret(c, Err("MissingParameter"))
    ELSE IF ~IsSome(parameters.pin_auth) THEN Ret(c, Err("MissingParameter"))
    ELSE IF pin_is_set(c) THEN Ret(c, Err("PinAuthInvalid")) ELSE
    Let([s \in {generate_shared_secret(c, Unwrap(parameters.key_agreement))} |->
    IF s.panic \/ ~s.v.ok THEN s ELSE
    Let([a \in {verify_pin_auth(s.c, s.v.val, <<Unwrap(parameters.new_pin_enc)>>,
                                Unwrap(parameters.pin_auth))} |->
    IF a.panic \/ ~a.v.ok THEN a ELSE
    Let([n \in {decrypt_pin_check_length(a.c, s.v.val,
                                         Unwrap(parameters.new_pin_enc))} |->
    IF n.panic \/ ~n.v.ok THEN n ELSE
    Let([h \in {hash_store_pin(n.c, n.v.val)} |->
    IF h.panic \/ ~h.v.ok THEN h
    ELSE Ret(reset_retries(h.c), ClientPinResponse(None, None, None))])])])])

\* mutant: decrements retries before it verifies pin_auth
client_pin_ChangePin_decrements_first(c, parameters) ==
    IF ~IsSome(parameters.key_agreement) THEN Ret(c, Err("MissingParameter"))
    ELSE IF ~IsSome(parameters.pin_hash_enc) THEN Ret(c, Err("MissingParameter"))
    ELSE IF ~IsSome(parameters.new_pin_enc) THEN Ret(c, Err("MissingParameter"))
    ELSE IF ~IsSome(parameters.pin_auth) THEN Ret(c, Err("MissingParameter")) ELSE
    Let([r \in {retries(c)} |->
    IF r.v = 0 THEN Ret(r.c, Err("PinBlocked")) ELSE
    Let([s \in {generate_shared_secret(r.c, Unwrap(parameters.key_agreement))} |->
    IF s.panic \/ ~s.v.ok THEN s ELSE
    Let([d \in {decrement_retries(s.c)} |->
    IF d.panic THEN d ELSE
    Let([a \in {verify_pin_auth(d.c, s.v.val,
                    <<Unwrap(parameters.new_pin_enc), Unwrap(parameters.pin_hash_enc)>>,
                    Unwrap(parameters.pin_auth))} |->
    IF a.panic \/ ~a.v.ok THEN a ELSE
    Let([e \in {decrypt_pin_hash_and_maybe_escalate(a.c, s.v.val,
                    Unwrap(parameters.pin_hash_enc))} |->
    IF e.panic \/ ~e.v.ok THEN e ELSE
    Let([n \in {decrypt_pin_check_length(reset_retries(e.c), s.v.val,
                    Unwrap(parameters.new_pin_enc))} |->
    IF n.panic \/ ~n.v.ok THEN n ELSE
    Let([h \in {hash_store_pin(n.c, n.v.val)} |->
    IF h.panic \/ ~h.v.ok THEN h
    ELSE Ret(h.c, ClientPinResponse(None, None, None))])])])])])])])

client_pin_ChangePin(c, parameters) ==
    IF ~IsSome(parameters.key_agreement) THEN Ret(c, Err("MissingParameter"))
    ELSE IF ~IsSome(parameters.pin_hash_enc) THEN Ret(c, Err("MissingParameter"))
    ELSE IF ~IsSome(parameters.new_pin_enc) THEN Ret(c, Err("MissingParameter"))
    ELSE IF ~IsSome(parameters.pin_auth) THEN Ret(c, Err("MissingParameter")) ELSE
    Let([r \in {retries(c)} |->
    IF r.v = 0 THEN Ret(r.c, Err("PinBlocked")) ELSE
    Let([s \in {generate_shared_secret(r.c, Unwrap(parameters.key_agreement))} |->
    IF s.panic \/ ~s.v.ok THEN s ELSE
    Let([a \in {verify_pin_auth(s.c, s.v.val,
                    <<Unwrap(parameters.new_pin_enc), Unwrap(parameters.pin_hash_enc)>>,
                    Unwrap(parameters.pin_auth))} |->
    IF a.panic \/ ~a.v.ok THEN a ELSE
    Let([d \in {decrement_retries(a.c)} |->
    IF d.panic THEN d ELSE
    Let([e \in {decrypt_pin_hash_and_maybe_escalate(d.c, s.v.val,
                    Unwrap(parameters.pin_hash_enc))} |->
    IF e.panic \/ ~e.v.ok THEN e ELSE
    Let([n \in {decrypt_pin_check_length(reset_retries(e.c), s.v.val,
                    Unwrap(parameters.new_pin_enc))} |->
    IF n.panic \/ ~n.v.ok THEN n ELSE
    Let([h \in {hash_store_pin(n.c, n.v.val)} |->
    IF h.panic \/ ~h.v.ok THEN h
    ELSE Ret(h.c, ClientPinResponse(None, None, None))])])])])])])])

client_pin_GetPinToken(c, parameters) ==
    IF ~IsSome(parameters.key_agreement) THEN Ret(c, Err("MissingParameter"))
    ELSE IF ~IsSome(parameters.pin_hash_enc) THEN Ret(c, Err("MissingParameter")) ELSE
    Let([r \in {retries(c)} |->
    IF r.v = 0 THEN Ret(r.c, Err("PinBlocked")) ELSE
    Let([s \in {generate_shared_secret(r.c, Unwrap(parameters.key_agreement))} |->
    IF s.panic \/ ~s.v.ok THEN s ELSE
    Let([d \in {decrement_retries(s.c)} |->
    IF d.panic THEN d ELSE
    Let([e \in {decrypt_pin_hash_and_maybe_escalate(d.c, s.v.val,
                    Unwrap(parameters.pin_hash_enc))} |->
    IF e.panic \/ ~e.v.ok THEN e ELSE
    Let([k \in {pin_token(reset_retries(e.c))} |->
    IF k.panic \/ ~k.v.ok THEN Panic(k.c) ELSE
    Let([w \in {Syscalls(k.c, 1)} |->
    IF w.panic THEN w
    ELSE IF WrappedKeyLen(k.v.val) # PIN_TOKEN_ENC_LEN THEN Ret(w.c, Err("Other"))
    ELSE Ret(w.c, ClientPinResponse(None, Some(AesEnc(s.v.val, k.v.val)), None))
    ])])])])])])

client_pin_any_protocol(c, parameters) ==
    CASE parameters.sub_command = "GetRetries" -> client_pin_GetRetries(c)
      [] parameters.sub_command = "GetKeyAgreement" -> client_pin_GetKeyAgreement(c)
      [] parameters.sub_command = "SetPin" -> client_pin_SetPin(c, parameters)
      [] parameters.sub_command = "ChangePin" -> client_pin_ChangePin(c, parameters)
      [] parameters.sub_command = "GetPinToken" -> client_pin_GetPinToken(c, parameters)

client_pin(c, parameters) ==
    IF parameters.pin_protocol # 1 THEN Ret(c, Err("InvalidParameter"))
    ELSE CASE parameters.sub_command = "GetRetries" -> client_pin_GetRetries(c)
           [] parameters.sub_command = "GetKeyAgreement" -> client_pin_GetKeyAgreement(c)
           [] parameters.sub_command = "SetPin" -> client_pin_SetPin(c, parameters)
           [] parameters.sub_command = "ChangePin" -> client_pin_ChangePin(c, parameters)
           [] parameters.sub_command = "GetPinToken" -> client_pin_GetPinToken(c, parameters)

----------------------------------------------------------------------------
(* pin_prechecks (lib.rs 612-698): returns whether UV was performed *)

\* self.up.user_present(): the source is asked once more
user_present(c) == [c EXCEPT !.ups = @ + 1]

\* mutant: answers without asking the user-presence source
zero_length_pin_auth_unasked(c) ==
    IF ~pin_is_set(c) THEN Ret(c, Err("PinNotSet"))
    ELSE Ret(c, Err("PinAuthInvalid"))

\* step 1 (lib.rs 625-636): pinAuth of length zero
zero_length_pin_auth(c) ==
    IF ~c.up THEN Ret(user_present(c), Err("OperationDenied"))
    ELSE IF ~pin_is_set(c) THEN Ret(user_present(c), Err("PinNotSet"))
    ELSE Ret(user_present(c), Err("PinAuthInvalid"))

pin_prechecks_option_first(c, options, pin_auth, pin_protocol, data) ==
    IF IsSome(pin_auth) /\ Unwrap(pin_auth).len = 0
    THEN zero_length_pin_auth(c)
    ELSE IF ~pin_is_set(c) /\ IsSome(options) /\ Unwrap(options).uv = Some(TRUE)
    THEN Ret(c, Err("InvalidOption"))
    ELSE IF IsSome(pin_auth) /\ pin_protocol # Some(1)
    THEN Ret(c, Err("PinAuthInvalid"))
    ELSE IF ~pin_is_set(c) /\ IsSome(pin_auth)
    THEN Ret(c, Err("InvalidOption"))
    ELSE IF pin_is_set(c)
    THEN IF IsSome(pin_auth)
         THEN IF Unwrap(pin_auth).len # PIN_AUTH_LEN
              THEN Ret(c, Err("InvalidParameter"))
              ELSE IF pin_protocol = Some(1)
              THEN Let([v \in {verify_pin(c, Unwrap(pin_auth), data)} |->
                        IF v.panic \/ ~v.v.ok THEN v ELSE Ret(v.c, Ok(TRUE))])
              ELSE Ret(c, Err("PinAuthInvalid"))
         ELSE Ret(c, Err("PinRequired"))
    ELSE Ret(c, Ok(FALSE))

\* mutant: with a PIN set, a command without pin_auth passes unverified
pin_prechecks_pin_optional(c, options, pin_auth, pin_protocol, data) ==
    IF IsSome(pin_auth) /\ Unwrap(pin_auth).len = 0
    THEN zero_length_pin_auth(c)
    ELSE IF IsSome(pin_auth) /\ pin_protocol # Some(1)
    THEN Ret(c, Err("PinAuthInvalid"))
    ELSE IF ~pin_is_set(c) /\ IsSome(options) /\ Unwrap(options).uv = Some(TRUE)
    THEN Ret(c, Err("InvalidOption"))
    ELSE IF ~pin_is_set(c) /\ IsSome(pin_auth)
    THEN Ret(c, Err("InvalidOption"))
    ELSE IF pin_is_set(c) /\ IsSome(pin_auth)
    THEN IF Unwrap(pin_auth).len # PIN_AUTH_LEN
         THEN Ret(c, Err("InvalidParameter"))
         ELSE Let([v \in {verify_pin(c, Unwrap(pin_auth), data)} |->
                   IF v.panic \/ ~v.v.ok THEN v ELSE Ret(v.c, Ok(TRUE))])
    ELSE Ret(c, Ok(FALSE))

pin_prechecks(c, options, pin_auth, pin_protocol, data) ==
    IF IsSome(pin_auth) /\ Unwrap(pin_auth).len = 0
    THEN zero_length_pin_auth(c)
    ELSE IF IsSome(pin_auth) /\ pin_protocol # Some(1)
    THEN Ret(c, Err("PinAuthInvalid"))
    ELSE IF ~pin_is_set(c) /\ IsSome(options) /\ Unwrap(options).uv = Some(TRUE)
    THEN Ret(c, Err("InvalidOption"))
    ELSE IF ~pin_is_set(c) /\ IsSome(pin_auth)
    THEN Ret(c, Err("InvalidOption"))
    ELSE IF pin_is_set(c)
    THEN IF IsSome(pin_auth)
         THEN IF Unwrap(pin_auth).len # PIN_AUTH_LEN
              THEN Ret(c, Err("InvalidParameter"))
              ELSE IF pin_protocol = Some(1)
              THEN Let([v \in {verify_pin(c, Unwrap(pin_auth), data)} |->
                        IF v.panic \/ ~v.v.ok THEN v ELSE Ret(v.c, Ok(TRUE))])
              ELSE Ret(c, Err("PinAuthInvalid"))
         ELSE Ret(c, Err("PinRequired"))
    ELSE Ret(c, Ok(FALSE))

----------------------------------------------------------------------------
(* Credentials (credential.rs) and the ChaCha8-Poly1305 AEAD *)

\* Credential::serialize / Credential::deserialize (canonical CBOR)
SerializeCredential(credential) == [cbor |-> "Credential", of |-> credential]
DeserializeCredential(bytes) ==
    IF bytes.cbor = "Credential" THEN Ok(bytes.of) ELSE Err("Other")

\* encrypt_chacha8poly1305(key, message, aad) -> (ciphertext, nonce, tag)
AeadTag(key, nonce, aad, message) ==
    [poly1305 |-> key, nonce |-> nonce, aad |-> aad, of |-> message]
EncryptChacha8Poly1305(key, message, aad, nonce) ==
    [ciphertext |-> [chacha8 |-> key, nonce |-> nonce, of |-> message],
     nonce |-> nonce,
     tag |-> AeadTag(key, nonce, aad, message)]

\* decrypt_chacha8poly1305(key, ciphertext, aad, nonce, tag) -> Option plaintext
DecryptChacha8Poly1305(key, ciphertext, aad, nonce, tag) ==
    IF /\ ciphertext.chacha8 = key
       /\ ciphertext.nonce = nonce
       /\ tag = AeadTag(key, nonce, aad, ciphertext.of)
    THEN Some(ciphertext.of) ELSE None

\* CredentialId from EncryptedSerializedCredential: nonce || tag || ciphertext
CredentialIdFrom(esc) == <<esc.nonce, esc.tag, esc.ciphertext>>
\* EncryptedSerializedCredential::try_from(CredentialId): split again
EncryptedSerializedCredentialFrom(id) ==
    IF Len(id) = 3
    THEN Some([nonce |-> id[1], tag |-> id[2], ciphertext |-> id[3]])
    ELSE None

\* wrap_key_chacha8poly1305(wrapping_key, key, aad)
WrapKey(wrapping_key, key) == [wrapped_by |-> wrapping_key, key |-> key]

\* CredentialProtectionPolicy::try_from(u8)
CredentialProtectionPolicyFrom(n) ==
    CASE n = 1 -> Ok("Optional")
      [] n = 2 -> Ok("OptionalWithCredentialIdList")
      [] n = 3 -> Ok("Required")
      [] OTHER -> Err("InvalidParameter")

----------------------------------------------------------------------------
(* make_credential (lib.rs 819-1147) *)

\* mutant: the first supported entry of the list wins
RECURSIVE SelectAlgorithm_first_wins(_, _, _)
SelectAlgorithm_first_wins(params, i, algorithm) ==
    IF i > Len(params) THEN algorithm
    ELSE SelectAlgorithm_first_wins(params, i + 1,
            IF algorithm # None THEN algorithm
            ELSE CASE params[i] = COSE_P256 -> Some("P256")
                   [] params[i] = COSE_ED25519 -> Some("Ed25519")
                   [] OTHER -> algorithm)

\* the loop over pub_key_cred_params (lib.rs 835-842)
RECURSIVE SelectAlgorithm(_, _, _)
SelectAlgorithm(params, i, algorithm) ==
    IF i > Len(params) THEN algorithm
    ELSE SelectAlgorithm(params, i + 1,
            CASE params[i] = COSE_P256 ->
                    IF algorithm = None THEN Some("P256") ELSE algorithm
              [] params[i] = COSE_ED25519 -> Some("Ed25519")
              [] OTHER -> algorithm)

\* SupportedAlgorithm as i32
AlgorithmId(algorithm) == IF algorithm = "P256" THEN COSE_P256 ELSE COSE_ED25519

\* mutant: extension data only for hmac-secret
Flags_hmac_only(uv_performed, hmac_secret_requested, cred_protect_requested) ==
    {"UP", "AT"}
    \cup (IF uv_performed THEN {"UV"} ELSE {})
    \cup (IF IsSome(hmac_secret_requested) THEN {"ED"} ELSE {})

\* flags of the authenticator data (lib.rs 1034-1046)
Flags(uv_performed, hmac_secret_requested, cred_protect_requested) ==
    {"UP", "AT"}
    \cup (IF uv_performed THEN {"UV"} ELSE {})
    \cup (IF IsSome(hmac_secret_requested) \/ cred_protect_requested # "Optional"
          THEN {"ED"} ELSE {})

\* extension processing (lib.rs 881-920): CredRandom for hmac-secret, then
\* the credProtect policy; value: [hmac_secret, cred_protect]
cred_protect_extension(c, extensions, hmac_secret) ==
    Let([policy \in {IF IsSome(extensions) /\ IsSome(Unwrap(extensions).cred_protect)
                     THEN CredentialProtectionPolicyFrom(
                              Unwrap(Unwrap(extensions).cred_protect))
                     ELSE Ok("Optional")} |->
    IF ~policy.ok THEN Ret(c, policy)
    ELSE Ret(c, Ok([hmac_secret |-> hmac_secret, cred_protect |-> policy.val]))])

process_extensions(c, extensions, rk_requested) ==
    IF ~(IsSome(extensions) /\ Unwrap(extensions).hmac_secret = Some(TRUE))
    THEN cred_protect_extension(c, extensions, None) ELSE
    Let([g \in {GenerateKey(c, "HmacSha256", "Internal")} |->
    IF ~g.ok THEN Panic(g.c)
    ELSE IF rk_requested
    THEN cred_protect_extension(g.c, extensions,
                                Some([kind |-> "Resident", key |-> g.key])) ELSE
    Let([k \in {key_encryption_key(g.c)} |->
    IF ~k.v.ok THEN k ELSE
    Let([w \in {Syscalls(k.c, 1)} |->
    IF w.panic THEN w
    ELSE cred_protect_extension(w.c, extensions,
             Some([kind |-> "Wrapped", key |-> WrapKey(k.v.val, g.key)]))])])])

\* Credential::new
NewCredential(parameters, algorithm, key, sign_counter, hmac_secret, cred_protect) ==
    [ctap_version |-> "Fido21Pre",
     rp_id |-> parameters.rp,
     user |-> parameters.user,
     algorithm |-> algorithm,
     key |-> key,
     sign_counter |-> sign_counter,
     hmac_secret |-> hmac_secret,
     cred_protect |-> cred_protect]

\* step 12.a (lib.rs 957-978): the key as the credential carries it
key_parameter(c, private_key, rk_requested) ==
    IF rk_requested THEN Ret(c, Ok([kind |-> "ResidentKey", key |-> private_key])) ELSE
    Let([k \in {key_encryption_key(c)} |->
    IF ~k.v.ok THEN k ELSE
    Let([w \in {Syscalls(k.c, 1)} |->
    IF w.panic THEN w
    ELSE Ret(w.c, Ok([kind |-> "WrappedKey", key |-> WrapKey(k.v.val, private_key)]))
    ])])

\* steps 12.b and 13 (lib.rs 1004-1146): the credential id and the response
attestation(c, parameters, algorithm, private_key, serialized_credential, uv_performed, ext) ==
    Let([kek \in {key_encryption_key(c)} |->
    IF ~kek.v.ok THEN kek ELSE
    Let([e \in {Syscalls(kek.c, 3)} |->
    IF e.panic THEN e ELSE
    Ret(e.c, Ok([fmt |-> "packed",
                 auth_data |->
                    [rp_id_hash |-> Sha256(parameters.rp),
                     flags |-> Flags(uv_performed, ext.hmac_secret, ext.cred_protect),
                     sign_count |-> SIGN_COUNT,
                     aaguid |-> "AAGUID0123456789",
                     credential_id |->
                        CredentialIdFrom(EncryptChacha8Poly1305(
                            kek.v.val, serialized_credential, parameters.rp,
                            Len(c.crypto.blobs))),
                     credential_public_key |-> PubOf(private_key.a),
                     extensions |-> parameters.extensions],
                 att_stmt |-> [alg |-> AlgorithmId(algorithm),
                               sig |-> [signed_by |-> private_key],
                               x5c |-> None]]))])])

\* steps 11-13 (lib.rs 929-1146), after user presence was confirmed
create_credential(c, parameters, algorithm, rk_requested, uv_performed, ext) ==
    Let([g \in {GenerateKey(c, algorithm,
                            IF rk_requested THEN "Internal" ELSE "Volatile")} |->
    IF ~g.ok THEN Panic(g.c) ELSE
    Let([p \in {Syscalls(g.c, 2)} |->
    IF p.panic THEN p ELSE
    Let([k \in {key_parameter(p.c, g.key, rk_requested)} |->
    IF k.panic \/ ~k.v.ok THEN k ELSE
    Let([serialized_credential \in
            {SerializeCredential(NewCredential(parameters, -AlgorithmId(algorithm),
                k.v.val, SIGN_COUNT, ext.hmac_secret, ext.cred_protect))} |->
    Let([b \in {Syscalls(k.c, 1)} |->
    IF b.panic THEN b ELSE
    attestation([b.c EXCEPT !.crypto.blobs =
                    Append(@, [label |-> "rk", data |-> serialized_credential,
                               location |-> "Internal"])],
                parameters, algorithm, g.key, serialized_credential,
                uv_performed, ext)])])])])])

make_credential(c, parameters) ==
    Let([u \in {pin_prechecks(c, parameters.options, parameters.pin_auth,
                              parameters.pin_protocol, parameters.client_data_hash)} |->
    IF u.panic \/ ~u.v.ok THEN u ELSE
    Let([algorithm \in {SelectAlgorithm(parameters.pub_key_cred_params, 1, None)} |->
    IF algorithm = None THEN Ret(u.c, Err("UnsupportedAlgorithm")) ELSE
    Let([rk_requested \in {IsSome(parameters.options)
                           /\ Unwrap(parameters.options).rk = Some(TRUE)} |->
    Let([x \in {process_extensions(u.c, parameters.extensions, rk_requested)} |->
    IF x.panic \/ ~x.v.ok THEN x
    ELSE IF ~c.up THEN Ret(user_present(x.c), Err("OperationDenied"))
    ELSE create_credential(user_present(x.c), parameters, Unwrap(algorithm),
                           rk_requested, u.v.val, x.v.val)])])])])

----------------------------------------------------------------------------
(* locate_credentials and get_assertion (lib.rs 700-817) *)

\* the filter_map over the allow list (lib.rs 711-739): split the id, decrypt
\* it under the key encryption key with the rp id as associated data,
\* deserialize; entries that fail a step are dropped
\* mutant: decrypts without the rp id as associated data
decode_credential_id_any_rp(kek, rp_id, credential_id) ==
    Let([esc \in {EncryptedSerializedCredentialFrom(credential_id)} |->
    IF ~IsSome(esc) THEN None ELSE
    Let([serialized \in {DecryptChacha8Poly1305(kek, Unwrap(esc).ciphertext,
                                                Unwrap(esc).tag.aad,
                                                Unwrap(esc).nonce, Unwrap(esc).tag)} |->
    IF ~IsSome(serialized) THEN None ELSE
    Let([credential \in {DeserializeCredential(Unwrap(serialized))} |->
    IF credential.ok THEN Some(credential.val) ELSE None])])])

\* one entry of the allow list (lib.rs 713-738): None, or the credential it
\* decodes to
decode_credential_id(kek, rp_id, credential_id) ==
    Let([esc \in {EncryptedSerializedCredentialFrom(credential_id)} |->
    IF ~IsSome(esc) THEN None ELSE
    Let([serialized \in {DecryptChacha8Poly1305(kek, Unwrap(esc).ciphertext, rp_id,
                                                Unwrap(esc).nonce, Unwrap(esc).tag)} |->
    IF ~IsSome(serialized) THEN None ELSE
    Let([credential \in {DeserializeCredential(Unwrap(serialized))} |->
    IF credential.ok THEN Some(credential.val) ELSE None])])])

RECURSIVE validate_allow_list(_, _, _, _, _, _)
validate_allow_list(c, kek, rp_id, allow_list, i, valid) ==
    IF i > Len(allow_list) THEN Ret(c, valid)
    ELSE IF ~IsSome(EncryptedSerializedCredentialFrom(allow_list[i]))
    THEN validate_allow_list(c, kek, rp_id, allow_list, i + 1, valid) ELSE
    Let([d \in {Syscalls(c, 1)} |->
    IF d.panic THEN d ELSE
    Let([credential \in {decode_credential_id(kek, rp_id, allow_list[i])} |->
    Let([kept \in {valid \o credential} |->
    validate_allow_list(d.c, kek, rp_id, allow_list, i + 1, kept)])])])

\* the existence filter (lib.rs 757-770)
RECURSIVE filter_existing(_, _, _, _)
filter_existing(c, credentials, i, existing) ==
    IF i > Len(credentials) THEN Ret(c, existing)
    ELSE IF credentials[i].key.kind = "WrappedKey"
    THEN Let([kept \in {Append(existing, credentials[i])} |->
         filter_existing(c, credentials, i + 1, kept)])
    ELSE IF credentials[i].algorithm \notin {COSE_P256, COSE_ED25519}
    THEN filter_existing(c, credentials, i + 1, existing) ELSE
    Let([q \in {Syscalls(c, 1)} |->
    IF q.panic THEN q ELSE
    Let([kept \in {IF Exists(q.c, IF credentials[i].algorithm = COSE_P256
                                  THEN "P256" ELSE "Ed25519",
                             credentials[i].key.key)
                   THEN Append(existing, credentials[i]) ELSE existing} |->
    filter_existing(q.c, credentials, i + 1, kept)])])

PolicyApplies_with_list(credential, allowed_credentials_passed, uv_performed) ==
    CASE credential.cred_protect = "Optional" -> TRUE
      [] OTHER -> allowed_credentials_passed \/ uv_performed

\* the credential protection policy filter (lib.rs 779-790)
PolicyApplies(credential, allowed_credentials_passed, uv_performed) ==
    CASE credential.cred_protect = "Optional" -> TRUE
      [] credential.cred_protect = "OptionalWithCredentialIdList" ->
            allowed_credentials_passed \/ uv_performed
      [] credential.cred_protect = "Required" -> uv_performed

locate_credentials_partial(c, rp_id, allow_list, uv_performed) ==
    Let([kek \in {key_encryption_key(c)} |->
    IF ~kek.v.ok THEN kek ELSE
    Let([allowed \in {IF IsSome(allow_list)
                      THEN validate_allow_list(kek.c, kek.v.val, rp_id,
                                               Unwrap(allow_list), 1, <<>>)
                      ELSE Ret(kek.c, <<>>)} |->
    IF allowed.panic THEN allowed
    ELSE IF ~(Len(allowed.v) > 0) THEN Panic(allowed.c) ELSE
    Let([existing \in {filter_existing(allowed.c, allowed.v, 1, <<>>)} |->
    IF existing.panic THEN existing ELSE
    Let([applicable \in {SelectSeq(existing.v,
                            LAMBDA credential :
                                PolicyApplies(credential, Len(allowed.v) > 0,
                                              uv_performed))} |->
    IF Len(applicable) = 0 THEN Ret(existing.c, Err("NoCredentials"))
    ELSE Ret(existing.c, Ok(applicable))])])])])

locate_credentials(c, rp_id, allow_list, uv_performed) ==
    Let([kek \in {key_encryption_key(c)} |->
    IF ~kek.v.ok THEN kek ELSE
    Let([allowed \in {IF IsSome(allow_list)
                      THEN validate_allow_list(kek.c, kek.v.val, rp_id,
                                               Unwrap(allow_list), 1, <<>>)
                      ELSE Ret(kek.c, <<>>)} |->
    IF allowed.panic THEN allowed
    ELSE IF IsSome(allow_list) /\ Len(allowed.v) < Len(Unwrap(allow_list))
    THEN Ret(allowed.c, Err("InvalidCredential"))
    \* allowed_credentials_passed is false: todo!("implement empty allowList")
    ELSE IF ~(Len(allowed.v) > 0) THEN Panic(allowed.c) ELSE
    Let([existing \in {filter_existing(allowed.c, allowed.v, 1, <<>>)} |->
    IF existing.panic THEN existing ELSE
    Let([applicable \in {SelectSeq(existing.v,
                            LAMBDA credential :
                                PolicyApplies(credential, Len(allowed.v) > 0,
                                              uv_performed))} |->
    IF Len(applicable) = 0 THEN Ret(existing.c, Err("NoCredentials"))
    ELSE Ret(existing.c, Ok(applicable))])])])])

get_assertion(c, parameters) ==
    Let([u \in {pin_prechecks(c, parameters.options, parameters.pin_auth,
                              parameters.pin_protocol, parameters.client_data_hash)} |->
    IF u.panic \/ ~u.v.ok THEN u ELSE
    Let([l \in {locate_credentials(u.c, parameters.rp_id, parameters.allow_list,
                                   u.v.val)} |->
    IF l.panic \/ ~l.v.ok THEN l
    \* "GetAssertion not done YET"
    ELSE Ret(l.c, Err("InvalidCommand"))])])

----------------------------------------------------------------------------
(* get_info (lib.rs 1199-1231) *)

get_info_reports_pin(c) ==
    Ok([versions |-> <<"FIDO_2_1_PRE", "FIDO_2_0", "U2F_V2">>,
        extensions |-> Some(<<"hmac-secret", "credProtect">>),
        aaguid |-> "AAGUID0123456789",
        options |-> Some([rk |-> TRUE, up |-> TRUE, uv |-> None,
                          client_pin |-> Some(pin_is_set(c))]),
        pin_protocols |-> Some(<<1>>)])

get_info(c) ==
    Ok([versions |-> <<"FIDO_2_1_PRE", "FIDO_2_0", "U2F_V2">>,
        extensions |-> Some(<<"hmac-secret", "credProtect">>),
        aaguid |-> "AAGUID0123456789",
        options |-> Some([rk |-> TRUE, up |-> TRUE, uv |-> None, client_pin |-> None]),
        pin_protocols |-> Some(<<1>>)])

----------------------------------------------------------------------------
(* poll (lib.rs 242-316): value None when the queue was empty, else the   *)
(* response that was enqueued                                             *)

dispatch_resets(c, request) ==
    CASE request.kind = "GetInfo" -> Ret(c, get_info(c))
      [] request.kind = "GetAssertion" -> get_assertion(c, request)
      [] request.kind = "MakeCredential" -> make_credential(c, request)
      [] request.kind = "ClientPin" -> client_pin(c, request)
      [] request.kind = "Reset" ->
            Ret([c EXCEPT !.state.pin_hash = None, !.state.retries = None,
                          !.state.consecutive_pin_mismatches = 0],
                Err("InvalidCommand"))
      [] OTHER -> Ret(c, Err("InvalidCommand"))

dispatch(c, request) ==
    CASE request.kind = "GetInfo" -> Ret(c, get_info(c))
      [] request.kind = "GetAssertion" -> get_assertion(c, request)
      [] request.kind = "MakeCredential" -> make_credential(c, request)
      [] request.kind = "ClientPin" -> client_pin(c, request)
      [] OTHER -> Ret(c, Err("InvalidCommand"))

\* mutant: does not create the key agreement key
poll_without_key(c, queue) ==
    IF queue = <<>>
    THEN [c |-> c, panic |-> FALSE, v |-> None, dequeued |-> FALSE] ELSE
    Let([r \in {dispatch(c, Head(queue))} |->
    [c |-> r.c, panic |-> r.panic,
     v |-> IF r.panic THEN None ELSE Some(r.v), dequeued |-> TRUE]])

poll(c, queue) ==
    Let([k \in {key_agreement_key(c)} |->
    IF ~k.v.ok THEN [c |-> k.c, panic |-> TRUE, v |-> None, dequeued |-> FALSE]
    ELSE IF queue = <<>>
    THEN [c |-> k.c, panic |-> FALSE, v |-> None, dequeued |-> FALSE] ELSE
    Let([r \in {dispatch(k.c, Head(queue))} |->
    [c |-> r.c, panic |-> r.panic,
     v |-> IF r.panic THEN None ELSE Some(r.v), dequeued |-> TRUE]])])

----------------------------------------------------------------------------
(* The host: the requests it builds *)

Pin1 == <<49, 50, 51, 52>>
Pin2 == <<53, 54, 55, 56>>
ShortPin == <<49, 50, 51>>
\* a PIN padded with NUL bytes to 64 bytes
Padded(pin) == pin \o [i \in 1..(PIN_PADDED_LEN - Len(pin)) |-> 0]

\* the id of the authenticator's current key agreement key (0: none yet)
CurrentKak == IF IsSome(state.key_agreement_key)
              THEN Unwrap(state.key_agreement_key).a ELSE 0

ClientPinRequest(protocol, sub, key_agreement, pin_auth, new_pin_enc, pin_hash_enc) ==
    [kind |-> "ClientPin", pin_protocol |-> protocol, sub_command |-> sub,
     key_agreement |-> key_agreement, pin_auth |-> pin_auth,
     new_pin_enc |-> new_pin_enc, pin_hash_enc |-> pin_hash_enc]

\* pinAuth as the platform computes it: the first 16 bytes of the HMAC
PlatformPinAuth(key, data) == PinAuth(PIN_AUTH_LEN, Hmac(key, data))
EmptyPinAuth == PinAuth(0, Hmac(GenHandle(0), <<>>))

\* SetPin as a platform that ran ECDH against key agreement key k sends it
SetPinRequest(k, auth_k, padded_pin) ==
    LET new_pin_enc == AesEnc(PlatformShared(k), padded_pin) IN
    ClientPinRequest(1, "SetPin", Some(PlatformKey),
        Some(PlatformPinAuth(PlatformShared(auth_k), <<new_pin_enc>>)),
        Some(new_pin_enc), None)

ChangePinRequest(k, auth_k, old_pin, padded_pin) ==
    LET new_pin_enc == AesEnc(PlatformShared(k), padded_pin)
        pin_hash_enc == AesEnc(PlatformShared(k), Left16(Sha256(old_pin)))
    IN  ClientPinRequest(1, "ChangePin", Some(PlatformKey),
            Some(PlatformPinAuth(PlatformShared(auth_k), <<new_pin_enc, pin_hash_enc>>)),
            Some(new_pin_enc), Some(pin_hash_enc))

GetPinTokenRequest(k, pin) ==
    ClientPinRequest(1, "GetPinToken", Some(PlatformKey), None, None,
        Some(AesEnc(PlatformShared(k), Left16(Sha256(pin)))))

Drop(request, field) == [request EXCEPT ![field] = None]

\* requests of the PIN protocol; the platform holds the current key
\* agreement key or the one before it
ClientPinRequests ==
    LET k == CurrentKak IN
    {ClientPinRequest(1, "GetRetries", None, None, None, None),
     ClientPinRequest(2, "GetRetries", None, None, None, None),
     ClientPinRequest(1, "GetRetries", None, Some(EmptyPinAuth), None, None),
     ClientPinRequest(1, "GetKeyAgreement", None, None, None, None)}
    \cup {SetPinRequest(k, k, Padded(Pin1)), SetPinRequest(k, k, Padded(ShortPin)),
          SetPinRequest(k, k, Pin1), SetPinRequest(k, k - 1, Padded(Pin1)),
          SetPinRequest(k - 1, k - 1, Padded(Pin1)),
          Drop(SetPinRequest(k, k, Padded(Pin1)), "pin_auth"),
          Drop(SetPinRequest(k, k, Padded(Pin1)), "new_pin_enc"),
          Drop(SetPinRequest(k, k, Padded(Pin1)), "key_agreement")}
    \cup {ChangePinRequest(k, k, Pin1, Padded(Pin2)),
          ChangePinRequest(k, k, Pin2, Padded(Pin1)),
          ChangePinRequest(k, k, Pin1, Padded(ShortPin)),
          ChangePinRequest(k, k, Pin1, Pin2),
          ChangePinRequest(k, k - 1, Pin1, Padded(Pin2)),
          ChangePinRequest(k - 1, k - 1, Pin1, Padded(Pin2)),
          Drop(ChangePinRequest(k, k, Pin1, Padded(Pin2)), "pin_hash_enc"),
          Drop(ChangePinRequest(k, k, Pin1, Padded(Pin2)), "pin_auth")}
    \cup {GetPinTokenRequest(k, Pin1), GetPinTokenRequest(k, Pin2),
          GetPinTokenRequest(k - 1, Pin1),
          [GetPinTokenRequest(k, Pin1) EXCEPT !.pin_hash_enc[1].wellformed = FALSE],
          [GetPinTokenRequest(k, Pin1) EXCEPT !.pin_protocol = 2],
          ClientPinRequest(0, "GetKeyAgreement", None, None, None, None),
          [SetPinRequest(k, k, Padded(Pin1)) EXCEPT !.pin_protocol = 2],
          [ChangePinRequest(k, k, Pin1, Padded(Pin2)) EXCEPT !.pin_protocol = 2],
          Drop(GetPinTokenRequest(k, Pin1), "pin_hash_enc"),
          Drop(GetPinTokenRequest(k, Pin1), "key_agreement")}

\* requests of the PIN protocol that set a PIN and fetch the PIN token
PinSetupRequests ==
    {SetPinRequest(CurrentKak, CurrentKak, Padded(Pin1)),
     GetPinTokenRequest(CurrentKak, Pin1)}

\* ClientPin commands with a pin_auth of length 0
ProbeRequests ==
    {ClientPinRequest(1, "GetRetries", None, Some(EmptyPinAuth), None, None),
     [SetPinRequest(CurrentKak, CurrentKak, Padded(Pin2))
        EXCEPT !.pin_auth = Some(EmptyPinAuth)]}

ClientDataHash == <<171>>
RpIds == {"example.com", "other.org"}

Options(rk, uv) == Some([rk |-> rk, uv |-> uv])
Extensions(hmac_secret, cred_protect) ==
    Some([hmac_secret |-> hmac_secret, cred_protect |-> cred_protect])

MakeCredentialRequest(algs, options, extensions, pin_auth, pin_protocol) ==
    [kind |-> "MakeCredential", client_data_hash |-> ClientDataHash,
     rp |-> "example.com", user |-> "user", pub_key_cred_params |-> algs,
     options |-> options, extensions |-> extensions,
     pin_auth |-> pin_auth, pin_protocol |-> pin_protocol]

GetAssertionRequest(rp_id, allow_list, options, pin_auth, pin_protocol) ==
    [kind |-> "GetAssertion", client_data_hash |-> ClientDataHash,
     rp_id |-> rp_id, allow_list |-> allow_list, options |-> options,
     pin_auth |-> pin_auth, pin_protocol |-> pin_protocol]

\* pinAuth over the client data hash under the PIN token the platform got
\* from GetPinToken; without a token it can only guess
TokenPinAuth ==
    PlatformPinAuth(IF IsSome(state.pin_token) THEN Unwrap(state.pin_token)
                    ELSE GenHandle(0), ClientDataHash)
WrongPinAuth == PlatformPinAuth(GenHandle(0), ClientDataHash)
ShortPinAuth == PinAuth(8, Hmac(GenHandle(0), ClientDataHash))

\* pin_auth and pin_protocol as they are sent together
PinAuthChoices ==
    {<<None, None>>, <<Some(TokenPinAuth), Some(1)>>, <<Some(EmptyPinAuth), Some(1)>>,
     <<Some(WrongPinAuth), Some(1)>>, <<Some(ShortPinAuth), Some(1)>>,
     <<Some(TokenPinAuth), Some(2)>>, <<Some(TokenPinAuth), None>>}

ExtensionChoices ==
    {None, Extensions(Some(TRUE), None), Extensions(Some(FALSE), None),
     Extensions(None, Some(1)), Extensions(None, Some(2)), Extensions(None, Some(3)),
     Extensions(None, Some(4)), Extensions(Some(TRUE), Some(3))}

\* the lists of at most MaxAlgs algorithms: the two the authenticator
\* supports and one it does not (-257, RS256)
AlgorithmLists ==
    UNION {[1..n -> {COSE_P256, COSE_ED25519, -257}] : n \in 0..MaxAlgs}

MakeCredentialRequests ==
    {MakeCredentialRequest(<<COSE_P256>>, o, e, a[1], a[2]) :
        o \in {None, Options(Some(TRUE), None)}, e \in ExtensionChoices,
        a \in {<<None, None>>, <<Some(TokenPinAuth), Some(1)>>}}
    \cup {MakeCredentialRequest(<<COSE_P256>>, o, None, a[1], a[2]) :
        o \in {None, Options(None, Some(TRUE))}, a \in PinAuthChoices}
    \cup {MakeCredentialRequest(algs, None, None, None, None) : algs \in AlgorithmLists}

\* a credential id whose tag was replaced, and one that is too short to split
Tampered(id) == <<id[1], AeadTag(GenHandle(0), id[1], "", id[3].of), id[3]>>
Truncated(id) == <<id[1]>>

AllowLists ==
    {None, Some(<<>>)}
    \cup {Some(<<id>>) : id \in issued}
    \cup {Some(<<id, Tampered(id)>>) : id \in issued}
    \cup {Some(<<Truncated(id)>>) : id \in issued}
    \cup {Some(<<id1, id2>>) : id1 \in issued, id2 \in issued}

GetAssertionRequests ==
    {GetAssertionRequest(rp_id, allow_list, None, a[1], a[2]) :
        rp_id \in RpIds, allow_list \in AllowLists,
        a \in {<<None, None>>, <<Some(TokenPinAuth), Some(1)>>}}
    \cup {GetAssertionRequest("example.com", None, None, Some(EmptyPinAuth), Some(1))}

\* the MakeCredential requests that enrol the credentials assertions are
\* asked for: resident or wrapped, each protection policy, with and
\* without user verification
EnrollRequests ==
    {MakeCredentialRequest(<<COSE_P256>>, o, e, a[1], a[2]) :
        o \in {None, Options(Some(TRUE), None)},
        e \in {None, Extensions(None, Some(2)), Extensions(None, Some(3)),
                Extensions(Some(TRUE), None)},
        a \in {<<None, None>>, <<Some(TokenPinAuth), Some(1)>>}}
    \cup {[MakeCredentialRequest(<<COSE_ED25519>>, None, None, None, None)
             EXCEPT !.rp = "other.org"]}

\* requests of every kind the dispatcher tells apart
DispatchRequests ==
    {[kind |-> "Ctap1"], [kind |-> "Reset"], [kind |-> "GetInfo"],
     ClientPinRequest(1, "GetRetries", None, None, None, None),
     ClientPinRequest(1, "GetKeyAgreement", None, None, None, None),
     SetPinRequest(CurrentKak, CurrentKak, Padded(Pin1)),
     GetPinTokenRequest(CurrentKak, Pin2),
     MakeCredentialRequest(<<COSE_P256>>, None, None, None, None),
     MakeCredentialRequest(<<>>, None, None, Some(EmptyPinAuth), Some(1))}
    \cup {GetAssertionRequest("example.com", allow_list, None, None, None) :
            allow_list \in {None, Some(<<>>)} \cup {Some(<<id>>) : id \in issued}}

----------------------------------------------------------------------------
(* Actions *)

Init ==
    /\ state = [attestation_key |-> None, key_agreement_key |-> None,
                key_encryption_key |-> None, pin_token |-> None,
                retries |-> None, consecutive_pin_mismatches |-> 0,
                pin_hash |-> None]
    /\ crypto = [keys |-> <<>>, blobs |-> <<>>]
    /\ recv = <<>>
    /\ send = <<>>
    /\ halted = FALSE
    /\ issued = {}
    /\ made = 0
    /\ wrong_kaks = <<>>
    /\ pending = None

\* what the host sees of a command: its request, the response, and how the
\* command used the user-presence source and the crypto service
Response(request, result, c) ==
    [req |-> request, res |-> result, up |-> c.up, ups |-> c.ups,
     crypto_failed |-> c.failAt \in 1..c.calls,
     pin_hash_check |-> c.pin_hash_check]

\* the retries a command finds: retries() initialises the counter to 8
RetriesOf(st) == IF IsSome(st.retries) THEN Unwrap(st.retries) ELSE INITIAL_RETRIES

FreshPinState(st) ==
    /\ IsSome(st.pin_hash)
    /\ st.retries = Some(INITIAL_RETRIES)
    /\ st.consecutive_pin_mismatches = 0

\* the history after a command: a GetPinToken with a wrong PIN hash starts
\* or extends it, any other change of the counters ends it
WrongKaksAfter(request, r) ==
    IF /\ ~r.panic /\ r.dequeued
       /\ request.kind = "ClientPin" /\ request.sub_command = "GetPinToken"
       /\ r.c.pin_hash_check = "mismatch"
       /\ r.c.failAt \notin 1..r.c.calls
    THEN IF FreshPinState(state) THEN <<state.key_agreement_key>>
         ELSE IF wrong_kaks # <<>> THEN Append(wrong_kaks, state.key_agreement_key)
         ELSE <<>>
    ELSE IF r.c.state.retries # state.retries
            \/ r.c.state.consecutive_pin_mismatches # state.consecutive_pin_mismatches
    THEN <<>>
    ELSE wrong_kaks

\* what a command meets outside the authenticator: the crypto call that
\* fails (0: none), the answer of the user-presence source, and whether the
\* build checks integer overflow.  A command runs the same way up to the
\* first of these events, so one deviation at a time covers their
\* combinations.
Environment ==
    [failAt : 0..MaxCalls, up : {TRUE}, overflow_checks : {TRUE}]
    \cup [failAt : {0}, up : BOOLEAN, overflow_checks : BOOLEAN]

\* the same with a crypto service whose calls all succeed
HealthyEnvironment == [failAt : {0}, up : BOOLEAN, overflow_checks : BOOLEAN]

\* one call of poll().  A panic halts the authenticator for good: nothing
\* runs after it, and the model keeps the state the command found.
PollIn(environment) ==
    /\ ~halted
    /\ \E env \in environment :
       \E r \in {poll(Ctx(state, crypto, env.failAt, env.up, env.overflow_checks),
                      recv)} :
          /\ state' = IF r.panic THEN state ELSE r.c.state
          /\ crypto' = IF r.panic THEN crypto ELSE r.c.crypto
          /\ halted' = r.panic
          /\ recv' = IF r.dequeued THEN Tail(recv) ELSE recv
          /\ send' = IF IsSome(r.v)
                     THEN Append(send, Response(Head(recv), Unwrap(r.v), r.c))
                     ELSE send
          /\ wrong_kaks' = WrongKaksAfter(IF recv = <<>> THEN <<>> ELSE Head(recv), r)
          /\ UNCHANGED <<issued, made, pending>>

Poll == PollIn(Environment)

PollHealthy == PollIn(HealthyEnvironment)

\* the host takes a response from the send queue and keeps the credential
\* id of a successful MakeCredential
HostReceive ==
    /\ send # <<>>
    /\ send' = Tail(send)
    /\ issued' = IF Head(send).req.kind = "MakeCredential" /\ Head(send).res.ok
                 THEN issued \cup {Head(send).res.val.auth_data.credential_id}
                 ELSE issued
    /\ UNCHANGED <<state, crypto, recv, halted, made, wrong_kaks, pending>>

\* the host enqueues a request; it keeps the requests and responses in
\* flight within the capacity of the queues, so that enqueue() succeeds
HostEnqueue(request) ==
    /\ ~halted
    /\ Len(recv) + Len(send) < QueueCap
    /\ Len(crypto.keys) < MaxKeys
    /\ request.kind = "MakeCredential" => made < MaxMade
    /\ recv' = Append(recv, request)
    /\ made' = IF request.kind = "MakeCredential" THEN made + 1 ELSE made
    /\ UNCHANGED <<state, crypto, send, halted, issued, wrong_kaks, pending>>

\* the host submits a request and waits for its response
HostSubmit(request) == recv = <<>> /\ send = <<>> /\ HostEnqueue(request)

HostClientPin == \E request \in ClientPinRequests : HostSubmit(request)

\* the host sends requests of every kind without waiting for the responses
HostRequest == \E request \in DispatchRequests : HostEnqueue(request)

Next == HostRequest \/ PollHealthy \/ HostReceive

Spec == Init /\ [][Next]_vars

NextPin == HostClientPin \/ Poll \/ HostReceive

SpecPin == Init /\ [][NextPin]_vars

\* the host probes with a ClientPin command whose pin_auth is empty
HostProbe == \E request \in ProbeRequests : HostSubmit(request)

\* the host sets a PIN and fetches the PIN token
HostPinSetup == \E request \in PinSetupRequests : HostSubmit(request)

HostMakeCredential == \E request \in MakeCredentialRequests : HostSubmit(request)

NextMake == HostPinSetup \/ HostProbe \/ HostMakeCredential \/ Poll \/ HostReceive

SpecMake == Init /\ [][NextMake]_vars

\* the host enrols credentials and then asks for assertions
HostEnroll == \E request \in EnrollRequests : HostSubmit(request)

HostGetAssertion == \E request \in GetAssertionRequests : HostSubmit(request)

NextCred == HostPinSetup \/ HostEnroll \/ HostGetAssertion \/ Poll \/ HostReceive

SpecCred == Init /\ [][NextCred]_vars

----------------------------------------------------------------------------
(* Vocabulary of the properties *)

\* the response enqueued last
LastResponse == send[Len(send)]
\* a step of poll() that enqueued a response, and that response
Answered == Len(send') = Len(send) + 1
NewResponse == send'[Len(send')]
\* a step of poll() that took a request from the queue
Dequeued == Len(recv') + 1 = Len(recv)

IsClientPin(resp, subs) ==
    resp.req.kind = "ClientPin" /\ resp.req.pin_protocol = 1
    /\ resp.req.sub_command \in subs
IsPinCheck(resp) == IsClientPin(resp, {"GetPinToken", "ChangePin"})

\* the command carried every parameter its subcommand requires
HasMandatory(req) ==
    /\ IsSome(req.key_agreement) /\ IsSome(req.pin_hash_enc)
    /\ req.sub_command = "ChangePin" => IsSome(req.new_pin_enc) /\ IsSome(req.pin_auth)

----------------------------------------------------------------------------
(* C2: retries stays within 0..8; a GetPinToken or ChangePin whose PIN-hash *)
(* comparison fails leaves retries exactly one lower than the command found *)
(* it, and one whose comparison succeeds leaves retries = 8.                *)
C2_Step ==
    /\ IsSome(state'.retries) => Unwrap(state'.retries) \in 0..INITIAL_RETRIES
    /\ Answered /\ IsPinCheck(NewResponse) /\ NewResponse.pin_hash_check = "mismatch"
          => state'.retries = Some(RetriesOf(state) - 1)
    /\ Answered /\ IsPinCheck(NewResponse) /\ NewResponse.pin_hash_check = "match"
          => state'.retries = Some(INITIAL_RETRIES)
C2_RetryAccounting == [][C2_Step]_vars

C2_Witness ==
    /\ send # <<>>
    /\ IsClientPin(LastResponse, {"ChangePin"})
    /\ LastResponse.pin_hash_check = "mismatch"
    /\ state.retries = Some(6)

(* C3 as claimed: once retries is 0 it stays 0, and every later GetPinToken  *)
(* or ChangePin with its mandatory parameters returns PinBlocked.            *)
C3_Step ==
    state.retries = Some(0) =>
        /\ state'.retries = Some(0)
        /\ Answered /\ IsPinCheck(NewResponse) /\ HasMandatory(NewResponse.req)
              => NewResponse.res.err = "PinBlocked"
C3_ZeroRetriesTerminal == [][C3_Step]_vars

(* C4 as claimed: once a PIN is set and consecutive_pin_mismatches has       *)
(* reached 3, the counter never falls below 3 again and every GetPinToken or *)
(* ChangePin fails, a correct PIN hash with PinAuthBlocked or PinBlocked.    *)
C4_Step ==
    IsSome(state.pin_hash) /\ state.consecutive_pin_mismatches >= MISMATCH_LIMIT =>
        /\ state'.consecutive_pin_mismatches >= MISMATCH_LIMIT
        /\ Answered /\ IsPinCheck(NewResponse) /\ HasMandatory(NewResponse.req)
              => /\ ~NewResponse.res.ok
                 /\ NewResponse.pin_hash_check = "match"
                       => NewResponse.res.err \in {"PinAuthBlocked", "PinBlocked"}
C4_MismatchLockout == [][C4_Step]_vars

(* C5: a GetPinToken or ChangePin that finds the decrypted pin_hash_enc      *)
(* different from the stored pin_hash and returns PinInvalid, PinAuthBlocked *)
(* or PinBlocked leaves a key_agreement_key that was generated during the    *)
(* command, different from the one before it.                                *)
C5_Step ==
    /\ Answered /\ IsPinCheck(NewResponse)
    /\ NewResponse.pin_hash_check = "mismatch"
    /\ NewResponse.res.err \in {"PinInvalid", "PinAuthBlocked", "PinBlocked"}
    => /\ state'.key_agreement_key # state.key_agreement_key
       /\ Len(crypto'.keys) = Len(crypto.keys) + 1
       /\ state'.key_agreement_key = Some(GenHandle(Len(crypto'.keys)))
       /\ crypto'.keys[Len(crypto'.keys)] = [mech |-> "P256", loc |-> "Volatile"]
C5_RotationOnMismatch == [][C5_Step]_vars

C5_Witness ==
    /\ send # <<>>
    /\ IsClientPin(LastResponse, {"ChangePin"})
    /\ LastResponse.pin_hash_check = "mismatch"
    /\ LastResponse.res.err = "PinAuthBlocked"
    /\ state.key_agreement_key = Some(GenHandle(4))

(* C6: from a state with a PIN set, 8 retries and no mismatch, the k-th of   *)
(* consecutive GetPinToken commands with a wrong PIN hash returns PinInvalid *)
(* for k = 1, 2, PinAuthBlocked for k = 3..7 and PinBlocked for k = 8, and   *)
(* leaves retries = 8 - k; the attempts met pairwise distinct key agreement  *)
(* keys.                                                                     *)
C6_WrongPinSequence ==
    send # <<>> /\ IsClientPin(LastResponse, {"GetPinToken"})
    /\ LastResponse.pin_hash_check = "mismatch" /\ ~LastResponse.crypto_failed
    /\ wrong_kaks # <<>>
    => LET k == Len(wrong_kaks) IN
       /\ k \in 1..INITIAL_RETRIES
       /\ LastResponse.res.err =
             IF k < MISMATCH_LIMIT THEN "PinInvalid"
             ELSE IF k < INITIAL_RETRIES THEN "PinAuthBlocked" ELSE "PinBlocked"
       /\ state.retries = Some(INITIAL_RETRIES - k)
       /\ \A i, j \in 1..k : i # j => wrong_kaks[i] # wrong_kaks[j]
       /\ state.key_agreement_key \notin {wrong_kaks[i] : i \in 1..k}

C6_Witness ==
    /\ send # <<>> /\ IsClientPin(LastResponse, {"GetPinToken"})
    /\ LastResponse.pin_hash_check = "mismatch"
    /\ Len(wrong_kaks) = INITIAL_RETRIES
    /\ LastResponse.res.err = "PinBlocked"

(* C1 as claimed: for every request poll() takes from the receive queue it *)
(* appends exactly one response to the send queue before it returns, the   *)
(* response to that request, so that responses follow the order of the     *)
(* requests.                                                                *)
C1_Step ==
    Dequeued => /\ ~halted'
                /\ Answered
                /\ send' = Append(send, NewResponse)
                /\ NewResponse.req = Head(recv)
C1_OneResponsePerRequest == [][C1_Step]_vars

\* a request whose pin_auth is present with length 0
IsProbe(req, kinds) ==
    req.kind \in kinds /\ IsSome(req.pin_auth) /\ Unwrap(req.pin_auth).len = 0

\* what the discovery probe answers in a state
ProbeAnswer(st) == IF IsSome(st.pin_hash) THEN "PinAuthInvalid" ELSE "PinNotSet"

(* C7 as claimed: a ClientPin or MakeCredential command whose pin_auth has   *)
(* length 0 returns PinNotSet when no PIN is set and PinAuthInvalid when one *)
(* is set, and the user-presence source was asked during the command.  A     *)
(* command the user-presence source denied is left aside.                    *)
C7_ClaimedStep ==
    /\ Answered /\ IsProbe(NewResponse.req, {"ClientPin", "MakeCredential"})
    /\ NewResponse.res.err # "OperationDenied"
    => /\ NewResponse.res.err = ProbeAnswer(state)
       /\ NewResponse.ups >= 1
C7_Step ==
    Answered /\ IsProbe(NewResponse.req, {"MakeCredential"})
    => /\ NewResponse.ups = 1
       /\ NewResponse.res.err =
             IF ~NewResponse.up THEN "OperationDenied" ELSE ProbeAnswer(state)
WantsExtensionData(req) ==
    /\ IsSome(req.extensions)
    /\ \/ Unwrap(req.extensions).hmac_secret = Some(TRUE)
       \/ /\ IsSome(Unwrap(req.extensions).cred_protect)
          /\ Unwrap(Unwrap(req.extensions).cred_protect) # 1

IsMade(resp) == resp.req.kind = "MakeCredential" /\ resp.res.ok

(* C8: the flags of every successful MakeCredential response are UP and AT,  *)
(* UV exactly when pin_prechecks returned true (a PIN is set and the command *)
(* carried a pin_auth, which verified), and ED exactly when hmac-secret was  *)
(* requested as true or the requested cred_protect policy is not Optional;   *)
(* with no PIN, no rk and no extensions the flags are exactly UP and AT.     *)
C8_Flags ==
    send # <<>> /\ IsMade(LastResponse) =>
        LET flags == LastResponse.res.val.auth_data.flags
            req == LastResponse.req
        IN  /\ {"UP", "AT"} \subseteq flags
            /\ flags \subseteq {"UP", "AT", "UV", "ED"}
            /\ "UV" \in flags <=> IsSome(state.pin_hash) /\ IsSome(req.pin_auth)
            /\ "ED" \in flags <=> WantsExtensionData(req)
            /\ ~IsSome(state.pin_hash) /\ ~IsSome(req.extensions)
                  => flags = {"UP", "AT"}

C8_Witness ==
    /\ send # <<>> /\ IsMade(LastResponse)
    /\ LastResponse.res.val.auth_data.flags = {"UP", "AT", "UV", "ED"}
    /\ Unwrap(LastResponse.req.extensions).cred_protect = Some(2)

\* the elements of a sequence
Range(s) == {s[i] : i \in 1..Len(s)}

\* the errors pin_prechecks returns before the algorithm is negotiated
PrecheckErrors ==
    {"OperationDenied", "PinNotSet", "PinAuthInvalid", "InvalidOption",
     "InvalidParameter", "PinRequired"}

(* C9: a MakeCredential that succeeds used Ed25519 when its                  *)
(* pub_key_cred_params contains -8 anywhere, and P-256 when it contains -7   *)
(* but no -8; when the list contains neither, the command never succeeds and *)
(* the negotiation, once pin_prechecks let the command pass, fails it with   *)
(* UnsupportedAlgorithm.                                                     *)
C9_AlgorithmNegotiation ==
    send # <<>> /\ LastResponse.req.kind = "MakeCredential" =>
        LET params == Range(LastResponse.req.pub_key_cred_params)
            res == LastResponse.res
        IN  /\ res.ok /\ COSE_ED25519 \in params
                  => res.val.att_stmt.alg = COSE_ED25519
            /\ res.ok /\ COSE_ED25519 \notin params
                  => res.val.att_stmt.alg = COSE_P256 /\ COSE_P256 \in params
            /\ COSE_ED25519 \notin params /\ COSE_P256 \notin params
                  => ~res.ok /\ res.err \in PrecheckErrors \cup {"UnsupportedAlgorithm"}
            /\ res.err = "UnsupportedAlgorithm"
                  => COSE_ED25519 \notin params /\ COSE_P256 \notin params

C9_Witness ==
    /\ send # <<>> /\ IsMade(LastResponse)
    /\ LastResponse.req.pub_key_cred_params = <<COSE_ED25519, -257, COSE_P256>>
    /\ LastResponse.res.val.att_stmt.alg = COSE_ED25519

\* the credentials of the stored blobs
StoredCredentials ==
    {DeserializeCredential(crypto.blobs[i].data).val : i \in 1..Len(crypto.blobs)}

\* the allow-list validation of locate_credentials on one credential id, in
\* the current state with a crypto service that answers
Validated(rp_id, credential_id) ==
    validate_allow_list(Ctx(state, crypto, 0, TRUE, TRUE),
                        Unwrap(state.key_encryption_key), rp_id,
                        <<credential_id>>, 1, <<>>).v

----------------------------------------------------------------------------
(* Assertions against an authenticator whose crypto service answers every *)
(* call: the host sets a PIN, enrols credentials and asks for assertions.  *)

NextAssert == HostPinSetup \/ HostEnroll \/ HostGetAssertion \/ PollHealthy \/ HostReceive

SpecAssert == Init /\ [][NextAssert]_vars

\* the request poll() is about to take is a GetAssertion
NextIsGetAssertion == recv # <<>> /\ Head(recv).kind = "GetAssertion"

\* pin_prechecks on the request at the head of the queue, in the current state
Prechecks ==
    pin_prechecks(Ctx(state, crypto, 0, TRUE, TRUE), Head(recv).options,
                  Head(recv).pin_auth, Head(recv).pin_protocol,
                  Head(recv).client_data_hash)
PrechecksPass == ~Prechecks.panic /\ Prechecks.v.ok

\* the entry does not split, does not decrypt under the current key
\* encryption key with the rp id, or does not deserialize
InvalidEntry(rp_id, credential_id) ==
    ~IsSome(decode_credential_id(Unwrap(state.key_encryption_key), rp_id,
                                 credential_id))

(* C11: a GetAssertion that passes pin_prechecks and whose allow list holds *)
(* at least one entry that does not split, decrypt under the current key    *)
(* encryption key with the rp id, or deserialize, is answered with          *)
(* InvalidCredential, whatever the other entries are.                       *)
C11_Step ==
    /\ Dequeued /\ NextIsGetAssertion /\ IsSome(Head(recv).allow_list)
    /\ IsSome(state.key_encryption_key) /\ PrechecksPass
    /\ \E i \in 1..Len(Unwrap(Head(recv).allow_list)) :
          InvalidEntry(Head(recv).rp_id, Unwrap(Head(recv).allow_list)[i])
    => /\ Answered
       /\ ~NewResponse.res.ok
       /\ NewResponse.res.err = "InvalidCredential"
C11_AllowListStrictness == [][C11_Step]_vars

\* a list of one valid and one forged entry was refused
C11_Witness ==
    /\ send # <<>> /\ LastResponse.req.kind = "GetAssertion"
    /\ \E id \in issued :
          /\ LastResponse.req.allow_list = Some(<<id, Tampered(id)>>)
          /\ Validated(LastResponse.req.rp_id, id) # <<>>
    /\ LastResponse.res.err = "InvalidCredential"

\* the credentials the entries of an allow list decode to
Decoded(rp_id, allow_list) ==
    [i \in 1..Len(allow_list) |->
        decode_credential_id(Unwrap(state.key_encryption_key), rp_id, allow_list[i])]

\* the credential passes the existence filter: its key is wrapped, or the
\* crypto service holds its resident key under the credential's algorithm
Existing(credential) ==
    filter_existing(Ctx(state, crypto, 0, TRUE, TRUE), <<credential>>, 1, <<>>).v # <<>>

\* the gate of the credential protection policies
Gate(credential, allow_list_passed, uv_performed) ==
    \/ credential.cred_protect = "Optional"
    \/ credential.cred_protect = "OptionalWithCredentialIdList"
          /\ (allow_list_passed \/ uv_performed)
    \/ credential.cred_protect = "Required" /\ uv_performed

\* the applicable set locate_credentials computes for the id of an existing
\* credential alone in the allow list is the credential when the gate lets
\* it pass, and is empty (NoCredentials) when it does not
C12_Applicable ==
    \A id \in issued : \A rp_id \in RpIds : \A uv_performed \in BOOLEAN :
        Validated(rp_id, id) # <<>> /\ Existing(Validated(rp_id, id)[1]) =>
            Let([l \in {locate_credentials(Ctx(state, crypto, 0, TRUE, TRUE), rp_id,
                                           Some(<<id>>), uv_performed)} |->
            /\ ~l.panic
            /\ IF Gate(Validated(rp_id, id)[1], TRUE, uv_performed)
               THEN l.v.ok /\ l.v.val = Validated(rp_id, id)
               ELSE ~l.v.ok /\ l.v.err = "NoCredentials"])

\* a GetAssertion that passes pin_prechecks with an allow list of valid
\* entries is answered NoCredentials exactly when the gate stops all the
\* existing credentials among them
C12_Step ==
    /\ Dequeued /\ NextIsGetAssertion /\ IsSome(Head(recv).allow_list)
    /\ Unwrap(Head(recv).allow_list) # <<>>
    /\ IsSome(state.key_encryption_key) /\ PrechecksPass
    /\ \A i \in 1..Len(Unwrap(Head(recv).allow_list)) :
          ~InvalidEntry(Head(recv).rp_id, Unwrap(Head(recv).allow_list)[i])
    => /\ Answered
       /\ ~NewResponse.res.ok
       /\ NewResponse.res.err = "NoCredentials"
            <=> \A i \in 1..Len(Unwrap(Head(recv).allow_list)) :
                   Let([credential \in {Unwrap(Decoded(Head(recv).rp_id,
                                            Unwrap(Head(recv).allow_list))[i])} |->
                   Existing(credential) => ~Gate(credential, TRUE, Prechecks.v.val)])

(* C12: in GetAssertion an existing credential with policy Required is      *)
(* applicable only when uv_performed is true, one with                      *)
(* OptionalWithCredentialIdList only when the allow list was non-empty or   *)
(* uv_performed is true, one with Optional always; when no credential is    *)
(* applicable the command returns NoCredentials.                            *)
C12_CredProtectGating == []C12_Applicable /\ [][C12_Step]_vars

\* a credential with policy Required was asked for without user verification
C12_Witness ==
    /\ send # <<>> /\ LastResponse.req.kind = "GetAssertion"
    /\ LastResponse.req.pin_auth = None
    /\ \E id \in issued :
          /\ LastResponse.req.allow_list = Some(<<id>>)
          /\ Validated(LastResponse.req.rp_id, id) # <<>>
          /\ Existing(Validated(LastResponse.req.rp_id, id)[1])
          /\ Validated(LastResponse.req.rp_id, id)[1].cred_protect = "Required"
    /\ LastResponse.res.err = "NoCredentials"

\* locate_credentials on the request at the head of the queue, in the
\* current state, after pin_prechecks let it pass
Located ==
    locate_credentials(Prechecks.c, Head(recv).rp_id, Head(recv).allow_list,
                       Prechecks.v.val)

(* C13: a GetAssertion that passes pin_prechecks and whose filtered set of   *)
(* credentials is non-empty is answered with a successful GetAssertion      *)
(* response, and NoCredentials is returned only when the filtered set is    *)
(* empty.                                                                   *)
C13_Step ==
    Dequeued /\ NextIsGetAssertion /\ PrechecksPass /\ ~Located.panic
    => /\ Located.v.ok => Answered /\ NewResponse.res.ok
       /\ Answered /\ NewResponse.res.err = "NoCredentials" => ~Located.v.ok
C13_AssertionAssembled == [][C13_Step]_vars

\* every credential stored for the rp id is resident and has policy Required,
\* and there is at least one
OnlyRequiredResidents(rp_id) ==
    /\ \E credential \in StoredCredentials : credential.rp_id = rp_id
    /\ \A credential \in StoredCredentials :
          credential.rp_id = rp_id =>
             credential.key.kind = "ResidentKey" /\ credential.cred_protect = "Required"

(* C14: a GetAssertion with an empty or missing allow list that passes       *)
(* pin_prechecks is answered with a response; when no PIN is set and the    *)
(* credentials of its rp id are resident credentials with policy Required,  *)
(* the response is NoCredentials.                                           *)
C14_Step ==
    /\ Dequeued /\ NextIsGetAssertion /\ PrechecksPass
    /\ Head(recv).allow_list \in {None, Some(<<>>)}
    => /\ Answered
       /\ ~IsSome(state.pin_hash) /\ OnlyRequiredResidents(Head(recv).rp_id)
             => NewResponse.res.err = "NoCredentials"
C14_EmptyAllowList == [][C14_Step]_vars

----------------------------------------------------------------------------
(* The PIN protocol against an authenticator whose crypto service answers *)

\* the request at the head of the queue is the SetPin a platform sends that
\* agreed on the current key agreement key and chose this PIN
NextIsSetPin(pin) ==
    /\ recv # <<>> /\ IsSome(state.key_agreement_key)
    /\ Head(recv) = SetPinRequest(CurrentKak, CurrentKak, Padded(pin))

\* what GetRetries would answer in the state after the step
RetriesAnswered ==
    client_pin(Ctx(state', crypto', 0, TRUE, TRUE),
               ClientPinRequest(1, "GetRetries", None, None, None, None)).v

(* C15: a SetPin with all its parameters, a valid pin_auth and a PIN of at   *)
(* least 4 bytes padded to 64, processed while no PIN is set, succeeds and  *)
(* leaves pin_hash = LEFT(SHA-256(PIN), 16), retries = 8 and                *)
(* consecutive_pin_mismatches = 0, and a GetRetries that follows answers 8. *)
C15_Step ==
    \A pin \in {Pin1, Pin2} :
        Dequeued /\ NextIsSetPin(pin) /\ ~IsSome(state.pin_hash)
        => /\ Answered
           /\ NewResponse.res.ok
           /\ state'.pin_hash = Some(Left16(Sha256(pin)))
           /\ state'.retries = Some(INITIAL_RETRIES)
           /\ state'.consecutive_pin_mismatches = 0
           /\ RetriesAnswered.ok
           /\ RetriesAnswered.val.retries = Some(INITIAL_RETRIES)
C15_SetPin == [][C15_Step]_vars

\* the host received 8 from the GetRetries it sent right after a SetPin that
\* succeeded
C15_Witness ==
    /\ Len(send) = 2
    /\ IsClientPin(send[1], {"SetPin"}) /\ send[1].res.ok
    /\ IsClientPin(send[2], {"GetRetries"}) /\ send[2].res.ok
    /\ send[2].res.val.retries = Some(INITIAL_RETRIES)
    /\ state.pin_hash = Some(Left16(Sha256(Pin1)))

\* the request at the head of the queue is a ClientPin command of protocol 1
\* with this subcommand
NextIsClientPin(sub_command) ==
    /\ recv # <<>> /\ Head(recv).kind = "ClientPin"
    /\ Head(recv).pin_protocol = 1 /\ Head(recv).sub_command = sub_command

(* C16: a SetPin that carries key_agreement, new_pin_enc and pin_auth and    *)
(* is processed while a PIN is set fails with PinAuthInvalid and leaves     *)
(* pin_hash, retries, consecutive_pin_mismatches and key_agreement_key as   *)
(* they were.                                                               *)
C16_Step ==
    /\ Dequeued /\ NextIsClientPin("SetPin") /\ IsSome(state.pin_hash)
    /\ IsSome(Head(recv).key_agreement) /\ IsSome(Head(recv).new_pin_enc)
    /\ IsSome(Head(recv).pin_auth)
    => /\ Answered
       /\ ~NewResponse.res.ok
       /\ NewResponse.res.err = "PinAuthInvalid"
       /\ state'.pin_hash = state.pin_hash
       /\ state'.retries = state.retries
       /\ state'.consecutive_pin_mismatches = state.consecutive_pin_mismatches
       /\ state'.key_agreement_key = state.key_agreement_key
C16_SetPinWhenSet == [][C16_Step]_vars

\* a SetPin with a valid pin_auth was refused where a PIN was set and
\* retries had been used
C16_Witness ==
    /\ send # <<>> /\ IsSome(state.pin_hash)
    /\ LastResponse.req = SetPinRequest(CurrentKak, CurrentKak, Padded(Pin1))
    /\ LastResponse.res.err = "PinAuthInvalid"
    /\ IsSome(state.retries) /\ Unwrap(state.retries) < INITIAL_RETRIES

\* the authenticator after the first step of poll(), which makes sure that
\* the key agreement key exists before it looks at the queue
Ensured == key_agreement_key(Ctx(state, crypto, 0, TRUE, TRUE)).c

(* C17: a ClientPin command whose pin_protocol is not 1 is answered with     *)
(* InvalidParameter, whatever its subcommand, and processing it changes     *)
(* neither pin_hash, retries, consecutive_pin_mismatches nor any key: the   *)
(* state and the keys are those poll() had before it took the request.      *)
C17_Step ==
    Dequeued /\ Head(recv).kind = "ClientPin" /\ Head(recv).pin_protocol # 1
    => /\ Answered
       /\ ~NewResponse.res.ok
       /\ NewResponse.res.err = "InvalidParameter"
       /\ state' = Ensured.state
       /\ crypto' = Ensured.crypto
C17_PinProtocol == [][C17_Step]_vars

\* a SetPin that protocol 1 would have accepted was refused
C17_Witness ==
    /\ send # <<>> /\ ~IsSome(state.pin_hash)
    /\ LastResponse.req =
          [SetPinRequest(CurrentKak, CurrentKak, Padded(Pin1)) EXCEPT !.pin_protocol = 2]
    /\ LastResponse.res.err = "InvalidParameter"

(* C18: every Ctap1 request and every Ctap2 request other than GetInfo,      *)
(* GetAssertion, MakeCredential and ClientPin is answered with the error    *)
(* InvalidCommand, and processing it leaves the state (PIN hash, counters,  *)
(* key handles) and the keys as poll() had them before it took the request. *)
C18_Step ==
    /\ Dequeued
    /\ Head(recv).kind \notin {"GetInfo", "GetAssertion", "MakeCredential", "ClientPin"}
    => /\ Answered
       /\ ~NewResponse.res.ok
       /\ NewResponse.res.err = "InvalidCommand"
       /\ state' = Ensured.state
       /\ crypto' = Ensured.crypto
C18_InvalidCommand == [][C18_Step]_vars

\* a Ctap1 request and a Ctap2 request without handler were refused where a
\* PIN was set
C18_Witness ==
    /\ Len(send) = 2 /\ IsSome(state.pin_hash)
    /\ send[1].req.kind = "Ctap1" /\ send[1].res.err = "InvalidCommand"
    /\ send[2].req.kind = "Reset" /\ send[2].res.err = "InvalidCommand"

(* C19: GetInfo always succeeds with the same metadata (versions            *)
(* FIDO_2_1_PRE, FIDO_2_0, U2F_V2 in this order; extensions hmac-secret and *)
(* credProtect; the configured AAGUID of 16 bytes; options rk = true,       *)
(* up = true, uv = none, client_pin = none; pin_protocols = [1]), whether a *)
(* PIN is set or blocked or not, and processing it leaves the state and the *)
(* keys as poll() had them before it took the request.                      *)
C19_Step ==
    Dequeued /\ Head(recv).kind = "GetInfo"
    => /\ Answered
       /\ NewResponse.res.ok
       /\ NewResponse.res.val.versions = <<"FIDO_2_1_PRE", "FIDO_2_0", "U2F_V2">>
       /\ NewResponse.res.val.extensions = Some(<<"hmac-secret", "credProtect">>)
       /\ NewResponse.res.val.aaguid = "AAGUID0123456789"
       /\ NewResponse.res.val.options =
             Some([rk |-> TRUE, up |-> TRUE, uv |-> None, client_pin |-> None])
       /\ NewResponse.res.val.pin_protocols = Some(<<1>>)
       /\ state' = Ensured.state
       /\ crypto' = Ensured.crypto
C19_GetInfo == [][C19_Step]_vars

\* GetInfo was answered where a PIN was set and retries were used up
C19_Witness ==
    /\ send # <<>> /\ LastResponse.req.kind = "GetInfo" /\ LastResponse.res.ok
    /\ IsSome(state.pin_hash) /\ state.retries = Some(0)

----------------------------------------------------------------------------
(* Failures of the crypto service *)

\* poll() in the current state with the crypto service failing the n-th
\* call of the command
PollFailing(n) == poll(Ctx(state, crypto, n, TRUE, TRUE), recv)

(* C20: when a call of the crypto service fails while a command is           *)
(* processed (the key agreement key exists, so every call is the command's) *)
(* the authenticator does not panic: the command is answered with an error, *)
(* and retries and consecutive_pin_mismatches are not reset by a command    *)
(* whose PIN hash was not verified.                                         *)
C20_CryptoFailure ==
    \A n \in 1..MaxCalls :
        recv # <<>> /\ ~halted /\ IsSome(state.key_agreement_key) =>
            Let([r \in {PollFailing(n)} |->
            r.c.failAt \in 1..r.c.calls
            => /\ ~r.panic
               /\ IsSome(r.v) /\ ~Unwrap(r.v).ok
               /\ r.c.pin_hash_check # "match"
                     => /\ RetriesOf(r.c.state) <= RetriesOf(state)
                        /\ r.c.state.consecutive_pin_mismatches
                              >= state.consecutive_pin_mismatches])

----------------------------------------------------------------------------
(* pin_prechecks, as MakeCredential and GetAssertion call it *)

\* the options and the pin_auth / pin_protocol pairs a command can carry
OptionChoices ==
    {None, Options(None, None), Options(None, Some(TRUE)), Options(None, Some(FALSE)),
     Options(Some(TRUE), Some(TRUE))}
NonEmptyPinAuthChoices == {a \in PinAuthChoices : a[1] = None \/ Unwrap(a[1]).len > 0}

\* pin_prechecks in the current state
PrechecksOf(options, pin_auth, pin_protocol) ==
    pin_prechecks(Ctx(state, crypto, 0, TRUE, TRUE), options, pin_auth, pin_protocol,
                  ClientDataHash)

WantsUv(options) == IsSome(options) /\ Unwrap(options).uv = Some(TRUE)

\* the outcome of the prechecks without PIN: the protocol of a pin_auth is
\* checked first, the uv option and the presence of a pin_auth after it
NoPinOutcome(options, pin_auth, pin_protocol) ==
    IF IsSome(pin_auth) /\ pin_protocol # Some(1) THEN Err("PinAuthInvalid")
    ELSE IF WantsUv(options) \/ IsSome(pin_auth) THEN Err("InvalidOption")
    ELSE Ok(FALSE)

\* the same as the cases are listed: the uv option first
NoPinOutcomeAsClaimed(options, pin_auth, pin_protocol) ==
    IF WantsUv(options) \/ (IsSome(pin_auth) /\ pin_protocol = Some(1))
    THEN Err("InvalidOption")
    ELSE IF IsSome(pin_auth) THEN Err("PinAuthInvalid")
    ELSE Ok(FALSE)

\* a MakeCredential that the prechecks refuse without PIN has asked nobody
\* for presence and has created nothing
C21_Step ==
    /\ Answered /\ NewResponse.req.kind = "MakeCredential" /\ ~IsSome(state.pin_hash)
    /\ NewResponse.req.pin_auth \in {a[1] : a \in NonEmptyPinAuthChoices}
    /\ WantsUv(NewResponse.req.options) \/ IsSome(NewResponse.req.pin_auth)
    => /\ NewResponse.res =
             NoPinOutcome(NewResponse.req.options, NewResponse.req.pin_auth,
                          NewResponse.req.pin_protocol)
       /\ NewResponse.ups = 0
       /\ crypto' = Ensured.crypto

C21_Outcome(Outcome(_, _, _)) ==
    ~IsSome(state.pin_hash) =>
        \A options \in OptionChoices : \A a \in NonEmptyPinAuthChoices :
            Let([r \in {PrechecksOf(options, a[1], a[2])} |->
            /\ ~r.panic
            /\ r.v = Outcome(options, a[1], a[2])
            /\ r.c.ups = 0
            /\ r.c.crypto = crypto])

(* C21 as stated: with no PIN set, options.uv = true or a non-empty pin_auth *)
(* with pin_protocol 1 fails with InvalidOption, a non-empty pin_auth with  *)
(* another or no pin_protocol fails with PinAuthInvalid, and otherwise the  *)
(* prechecks pass with uv_performed = false.                                *)
C21_AsClaimed == C21_Outcome(NoPinOutcomeAsClaimed)

(* C21: with no PIN set, a non-empty pin_auth whose pin_protocol is absent   *)
(* or not 1 fails with PinAuthInvalid, also when options.uv is true;        *)
(* otherwise options.uv = true or a non-empty pin_auth fails with           *)
(* InvalidOption; otherwise the prechecks pass with uv_performed = false.   *)
(* None of these failures asks for user presence or creates anything.       *)
C21_NoPinPrechecks == []C21_Outcome(NoPinOutcome) /\ [][C21_Step]_vars

\* a MakeCredential that asked for uv was refused where no PIN was set
C21_Witness ==
    /\ send # <<>> /\ LastResponse.req.kind = "MakeCredential"
    /\ ~IsSome(state.pin_hash)
    /\ WantsUv(LastResponse.req.options) /\ LastResponse.req.pin_auth = None
    /\ LastResponse.res.err = "InvalidOption" /\ LastResponse.ups = 0

(* C22: with a PIN set, the prechecks fail with PinRequired when pin_auth is *)
(* absent; with a non-empty pin_auth and pin_protocol 1 they pass with      *)
(* uv_performed = true exactly when pin_auth has 16 bytes and equals the    *)
(* first 16 bytes of HMAC-SHA256(pin_token, data), and in every other case  *)
(* (wrong length, wrong MAC) they fail with PinAuthInvalid.                 *)
C22_PinSetPrechecks ==
    IsSome(state.pin_hash) =>
        \A options \in OptionChoices : \A a \in NonEmptyPinAuthChoices :
            a[1] = None \/ a[2] = Some(1) =>
                Let([r \in {PrechecksOf(options, a[1], a[2])} |->
                /\ ~r.panic
                /\ r.v = IF a[1] = None THEN Err("PinRequired")
                         ELSE IF /\ Unwrap(a[1]).len = PIN_AUTH_LEN
                                 /\ Unwrap(a[1]).tag =
                                       Hmac(Unwrap(r.c.state.pin_token), ClientDataHash)
                         THEN Ok(TRUE)
                         ELSE Err("PinAuthInvalid")])

----------------------------------------------------------------------------
(* What MakeCredential leaves in the crypto service *)

\* the response to a MakeCredential that got as far as its presence step
\* (step 10) and was denied there
DeniedAtPresenceStep(resp) ==
    /\ resp.req.kind = "MakeCredential"
    /\ ~(IsSome(resp.req.pin_auth) /\ Unwrap(resp.req.pin_auth).len = 0)
    /\ resp.res.err = "OperationDenied"

(* C23: a MakeCredential that is denied at its presence step returns         *)
(* OperationDenied and has created nothing in the crypto service: the keys  *)
(* and the blobs are those poll() had before it took the request, whatever  *)
(* rk and the extensions were.                                              *)
C23_Step ==
    Answered /\ DeniedAtPresenceStep(NewResponse)
    => /\ ~NewResponse.up /\ NewResponse.ups = 1
       /\ crypto' = Ensured.crypto
C23_DeniedCreatesNothing == [][C23_Step]_vars

\* options.rk of a request is true
RkRequested(request) ==
    IsSome(request.options) /\ Unwrap(request.options).rk = Some(TRUE)

\* the blobs labelled "rk" in internal storage
RkBlobs(service) ==
    SelectSeq(service.blobs, LAMBDA b : b.label = "rk" /\ b.location = "Internal")

(* C24: a successful MakeCredential adds one blob labelled "rk" to internal  *)
(* storage exactly when options.rk was true, and a MakeCredential with rk   *)
(* false or absent leaves the stored "rk" blobs as they were.               *)
C24_Step ==
    Answered /\ NewResponse.req.kind = "MakeCredential" =>
        /\ NewResponse.res.ok =>
              (Len(RkBlobs(crypto')) = Len(RkBlobs(crypto)) + 1
                  <=> RkRequested(NewResponse.req))
        /\ ~RkRequested(NewResponse.req) => RkBlobs(crypto') = RkBlobs(crypto)
C24_RkBlobIffRk == [][C24_Step]_vars

----------------------------------------------------------------------------
(* The algorithm id a credential records *)

\* the crypto service still holds the key of the handle
HandleExists(key) == key.kind = "gen" /\ key.a \in 1..Len(crypto.keys)

(* C25: every credential MakeCredential built records the COSE id of its     *)
(* algorithm, -7 or -8, and a resident credential whose private key the     *)
(* crypto service still holds passes the existence filter of a GetAssertion *)
(* that lists its credential id for its rp id.                              *)
C25_ResidentPassesFilter ==
    \A id \in issued : \A rp_id \in RpIds :
        \A credential \in {Validated(rp_id, id)[i] : i \in 1..Len(Validated(rp_id, id))} :
            /\ credential.algorithm \in {COSE_P256, COSE_ED25519}
            /\ credential.key.kind = "ResidentKey" /\ HandleExists(credential.key.key)
               => Existing(credential)

----------------------------------------------------------------------------
(* The order of the checks of ChangePin *)

\* the pin_auth of a ChangePin request is the one verify_pin_auth computes
\* under the key agreement key the command finds
PinAuthMatches(request) ==
    LET shared_secret == KdfOf(DhOf(Unwrap(Ensured.state.key_agreement_key).a,
                                    Unwrap(request.key_agreement).a))
    IN  /\ Unwrap(request.pin_auth).len = PIN_AUTH_LEN
        /\ Unwrap(request.pin_auth).tag
              = Hmac(shared_secret, <<Unwrap(request.new_pin_enc),
                                      Unwrap(request.pin_hash_enc)>>)

(* C26: a ChangePin with its four parameters and retries > 0 checks pin_auth *)
(* before it decrements retries and decrements before it compares the PIN   *)
(* hash: a wrong pin_auth is answered PinAuthInvalid with the retries value, *)
(* consecutive_pin_mismatches, pin_hash and key_agreement_key as they were  *)
(* and no PIN hash compared, while a command whose PIN hash mismatches ends  *)
(* with retries one lower and a rotated key_agreement_key.                  *)
C26_Step ==
    /\ Answered /\ IsClientPin(NewResponse, {"ChangePin"})
    /\ HasMandatory(NewResponse.req) /\ RetriesOf(state) > 0
    => /\ ~PinAuthMatches(NewResponse.req) /\ ~NewResponse.crypto_failed
             => NewResponse.res.err = "PinAuthInvalid"
       /\ NewResponse.res.err = "PinAuthInvalid"
             => /\ NewResponse.pin_hash_check = "none"
                /\ RetriesOf(state') = RetriesOf(state)
                /\ state'.consecutive_pin_mismatches = state.consecutive_pin_mismatches
                /\ state'.pin_hash = state.pin_hash
                /\ state'.key_agreement_key = Ensured.state.key_agreement_key
       /\ NewResponse.pin_hash_check = "mismatch"
             => /\ PinAuthMatches(NewResponse.req)
                /\ state'.retries = Some(RetriesOf(state) - 1)
                /\ state'.pin_hash = state.pin_hash
                /\ ~NewResponse.crypto_failed
                      => /\ NewResponse.res.err \in {"PinInvalid", "PinAuthBlocked", "PinBlocked"}
                         /\ IsSome(state'.key_agreement_key)
                         /\ state'.key_agreement_key # Ensured.state.key_agreement_key
C26_ChangePinOrder == [][C26_Step]_vars

\* a ChangePin with a stale pin_auth and a wrong current PIN was answered
\* PinAuthInvalid: the stored PIN is Pin2, the request names Pin1
C26_Witness ==
    /\ send # <<>>
    /\ IsClientPin(LastResponse, {"ChangePin"})
    /\ LastResponse.res.err = "PinAuthInvalid"
    /\ state.pin_hash = Some(Left16(Sha256(Pin2)))
    /\ LastResponse.req = ChangePinRequest(CurrentKak, CurrentKak - 1, Pin1, Padded(Pin2))
    /\ state.retries = Some(INITIAL_RETRIES)

----------------------------------------------------------------------------
(* The policy on a new PIN *)

\* the shared secret a command derives from the platform key of the request
SharedSecretOf(request) ==
    KdfOf(DhOf(Unwrap(Ensured.state.key_agreement_key).a,
               Unwrap(request.key_agreement).a))

\* the new PIN of the request as the command decrypts it
NewPinPlain(request) ==
    DecryptAes256Cbc(SharedSecretOf(request), Unwrap(request.new_pin_enc), Garbage64)

\* the new PIN is not padded to 64 bytes, or is shorter than 4 bytes
\* without its padding
BadNewPin(request) ==
    \/ Len(NewPinPlain(request)) < PIN_PADDED_LEN
    \/ NulPosition(NewPinPlain(request), 1) < PIN_MIN_LEN

\* the request is a SetPin or ChangePin with a new PIN and a pin_auth that
\* verifies
CarriesNewPin(request) ==
    /\ IsSome(request.key_agreement) /\ IsSome(request.new_pin_enc)
    /\ IsSome(request.pin_auth)
    /\ Unwrap(request.new_pin_enc).wellformed
    /\ Unwrap(request.pin_auth).len = PIN_AUTH_LEN
    /\ \/ /\ request.sub_command = "SetPin"
          /\ Unwrap(request.pin_auth).tag
                = Hmac(SharedSecretOf(request), <<Unwrap(request.new_pin_enc)>>)
       \/ /\ request.sub_command = "ChangePin"
          /\ IsSome(request.pin_hash_enc)
          /\ PinAuthMatches(request)

(* C27: a SetPin or ChangePin whose decrypted new PIN is not padded to 64    *)
(* bytes, or is shorter than 4 bytes without its padding, is rejected and   *)
(* pin_hash stays what it was (none for a SetPin that got to the PIN, the   *)
(* old hash for ChangePin); ChangePin rejects the PIN after the old PIN     *)
(* matched, with retries 8 and consecutive_pin_mismatches 0 afterwards.     *)
C27_Step ==
    /\ Answered /\ IsClientPin(NewResponse, {"SetPin", "ChangePin"})
    /\ CarriesNewPin(NewResponse.req) /\ BadNewPin(NewResponse.req)
    => /\ ~NewResponse.res.ok
       /\ state'.pin_hash = state.pin_hash
       /\ NewResponse.req.sub_command = "SetPin" /\ ~IsSome(state.pin_hash)
          /\ ~NewResponse.crypto_failed
             => NewResponse.res.err = "PinPolicyViolation"
       /\ NewResponse.req.sub_command = "ChangePin"
          /\ NewResponse.pin_hash_check = "match" /\ ~NewResponse.crypto_failed
             => NewResponse.res.err = "PinPolicyViolation"
       /\ NewResponse.res.err = "PinPolicyViolation"
             => IF NewResponse.req.sub_command = "SetPin"
                THEN ~IsSome(state'.pin_hash)
                ELSE /\ NewResponse.pin_hash_check = "match"
                     /\ IsSome(state'.pin_hash)
                     /\ state'.retries = Some(INITIAL_RETRIES)
                     /\ state'.consecutive_pin_mismatches = 0
C27_NewPinPolicy == [][C27_Step]_vars

\* a ChangePin with the right current PIN and a new PIN of 3 bytes was
\* answered PinPolicyViolation after an earlier mismatch had rotated the key
\* agreement key: the PIN is kept, retries is 8 and no mismatch is counted
C27_Witness ==
    /\ send # <<>>
    /\ IsClientPin(LastResponse, {"ChangePin"})
    /\ LastResponse.res.err = "PinPolicyViolation"
    /\ LastResponse.req = ChangePinRequest(CurrentKak, CurrentKak, Pin1, Padded(ShortPin))
    /\ CurrentKak > 1
    /\ state.pin_hash = Some(Left16(Sha256(Pin1)))
    /\ state.retries = Some(INITIAL_RETRIES)
    /\ state.consecutive_pin_mismatches = 0

----------------------------------------------------------------------------
(* What one call of poll() does to the queues *)

\* a step in which poll() ran and returned: it took a request, or it changed
\* the authenticator or the crypto service
PollReturned ==
    ~halted' /\ (Dequeued \/ state' # state \/ crypto' # crypto \/ Answered)

(* C28: after a poll() that returned key_agreement_key is present; a poll()  *)
(* on an empty request queue takes nothing, enqueues nothing and changes    *)
(* nothing but key_agreement_key, which it creates when it was absent; no   *)
(* poll() takes more than one request or enqueues more than one response.   *)
C28_Step ==
    /\ Len(recv') >= Len(recv) - 1
    /\ Len(send') <= Len(send) + 1
    /\ Dequeued => recv' = Tail(recv)
    /\ Answered => Dequeued /\ send' = Append(send, NewResponse)
    /\ PollReturned => IsSome(state'.key_agreement_key)
    /\ PollReturned /\ recv = <<>>
          => /\ recv' = <<>> /\ send' = send
             /\ ~IsSome(state.key_agreement_key)
             /\ state' = [state EXCEPT !.key_agreement_key = Some(GenHandle(Len(crypto'.keys)))]
             /\ crypto' = [crypto EXCEPT !.keys = Append(@, [mech |-> "P256", loc |-> "Volatile"])]
C28_PollFrame == [][C28_Step]_vars

\* the authenticator after its first poll(), on an empty queue: the key
\* agreement key is the only thing it has
C28_Witness ==
    /\ recv = <<>> /\ send = <<>> /\ made = 0 /\ issued = {}
    /\ state = [attestation_key |-> None, key_agreement_key |-> Some(GenHandle(1)),
                key_encryption_key |-> None, pin_token |-> None,
                retries |-> None, consecutive_pin_mismatches |-> 0,
                pin_hash |-> None]
    /\ crypto = [keys |-> <<[mech |-> "P256", loc |-> "Volatile"]>>, blobs |-> <<>>]

----------------------------------------------------------------------------
(* The two PIN counters *)

\* the two counters after a step are those of decrement_retries or those of
\* reset_retries
CountersMoveTogether ==
    \/ /\ state'.retries = Some(RetriesOf(state) - 1)
       /\ state'.consecutive_pin_mismatches = state.consecutive_pin_mismatches + 1
    \/ /\ state'.retries = Some(INITIAL_RETRIES)
       /\ state'.consecutive_pin_mismatches = 0

(* C30: whenever retries is initialised, retries plus                        *)
(* consecutive_pin_mismatches is 8, and consecutive_pin_mismatches is never *)
(* above 8; a step that changes one of the two counters lowers retries by   *)
(* one and raises the mismatch count by one, or sets them to 8 and 0.       *)
C30_Sum ==
    /\ IsSome(state.retries)
          => Unwrap(state.retries) + state.consecutive_pin_mismatches = INITIAL_RETRIES
    /\ state.consecutive_pin_mismatches <= INITIAL_RETRIES
C30_Step ==
    state'.retries # state.retries
    \/ state'.consecutive_pin_mismatches # state.consecutive_pin_mismatches
    => CountersMoveTogether
C30_CountersSumToEight == []C30_Sum /\ [][C30_Step]_vars

\* every retry was used: retries is 0 after 8 mismatches
C30_Witness ==
    state.retries = Some(0) /\ state.consecutive_pin_mismatches = INITIAL_RETRIES

----------------------------------------------------------------------------
(* poll() step by step: every crypto call of a command is submitted to the  *)
(* crypto service and busy-polled until the service reports Ready (block!   *)
(* and syscall!, lib.rs 103-127).  The service answers every call.          *)

\* the command of the request as poll() runs it, every crypto call answered
Running ==
    dispatch(Ctx(state, crypto, 0, Unwrap(pending).up, Unwrap(pending).overflow_checks),
             Unwrap(pending).request)

\* the user is present or not; the build checks arithmetic overflow
WaitEnvironment == [failAt : {0}, up : BOOLEAN, overflow_checks : {TRUE}]

\* the host sends requests of every kind without waiting for the responses;
\* the request poll() is working on counts as in flight
HostRequestWait ==
    /\ IsSome(pending) => recv = <<>> /\ send = <<>>
    /\ HostRequest

\* poll() is called: it makes sure of the key agreement key and takes the
\* request at the head of the queue, if there is one
PollBegin ==
    /\ ~halted /\ pending = None
    /\ \E env \in WaitEnvironment :
       \E k \in {key_agreement_key(Ctx(state, crypto, 0, env.up, env.overflow_checks))} :
          /\ state' = k.c.state
          /\ crypto' = k.c.crypto
          /\ recv' = IF recv = <<>> THEN recv ELSE Tail(recv)
          /\ pending' = IF recv = <<>> THEN None
                        ELSE Some([request |-> Head(recv), up |-> env.up,
                                   overflow_checks |-> env.overflow_checks,
                                   answered |-> 0])
    /\ UNCHANGED <<send, halted, issued, made, wrong_kaks>>

\* the crypto service reports Ready for the call the command is polling
ServiceAnswers ==
    /\ ~halted /\ IsSome(pending)
    /\ Unwrap(pending).answered < Running.c.calls
    /\ pending' = Some([Unwrap(pending) EXCEPT !.answered = @ + 1])
    /\ UNCHANGED <<state, crypto, recv, send, halted, issued, made, wrong_kaks>>

\* the command has its last answer: it runs to its end and poll() enqueues
\* the response, or it panics and poll() never returns
PollFinish ==
    /\ ~halted /\ IsSome(pending)
    /\ Unwrap(pending).answered = Running.c.calls
    /\ \E r \in {Running} :
          /\ state' = IF r.panic THEN state ELSE r.c.state
          /\ crypto' = IF r.panic THEN crypto ELSE r.c.crypto
          /\ halted' = r.panic
          /\ send' = IF r.panic THEN send
                     ELSE Append(send, Response(Unwrap(pending).request, r.v, r.c))
          /\ pending' = IF r.panic THEN pending ELSE None
    /\ UNCHANGED <<recv, issued, made, wrong_kaks>>

NextWait == HostRequestWait \/ PollBegin \/ ServiceAnswers \/ PollFinish \/ HostReceive

\* the crypto service answers every call it was given, and a command whose
\* call was answered goes on
SpecWait ==
    Init /\ [][NextWait]_vars /\ WF_vars(ServiceAnswers) /\ WF_vars(PollFinish)

\* the steps of a poll() inside a command: no other request is taken, and
\* the command ends with the response to its own request
C29_Step ==
    IsSome(pending) =>
        /\ Len(recv') >= Len(recv)
        /\ pending' = None
              => Answered /\ NewResponse.req = Unwrap(pending).request
        /\ IsSome(pending') => Unwrap(pending').request = Unwrap(pending).request

(* C29: with a crypto service that answers every call, every poll() that     *)
(* took a request comes to its end, the request gets its response, and no   *)
(* other request is taken before that.                                      *)
C29_EveryRequestAnswered ==
    (IsSome(pending) ~> pending = None) /\ [][C29_Step]_vars

----------------------------------------------------------------------------
(* PIN commands while no PIN is set *)

(* C31: a GetPinToken or ChangePin that is processed while no PIN is set     *)
(* fails, and the retries value and consecutive_pin_mismatches are the same *)
(* after the command as before it.                                          *)
C31_Step ==
    Answered /\ IsPinCheck(NewResponse) /\ ~IsSome(state.pin_hash)
    => /\ ~NewResponse.res.ok
       /\ RetriesOf(state') = RetriesOf(state)
       /\ state'.consecutive_pin_mismatches = state.consecutive_pin_mismatches
C31_NoPinNoRetryConsumed == [][C31_Step]_vars

----------------------------------------------------------------------------
(* The stored PIN hash *)

\* the hash the command stores for the new PIN of the request
NewPinHash(request) ==
    Left16(Sha256(SubSeq(NewPinPlain(request), 1, NulPosition(NewPinPlain(request), 1))))

(* C32: a pin_hash that is set is never absent afterwards; pin_hash is set   *)
(* by a successful SetPin that found none, and a pin_hash that is set       *)
(* changes only in a successful ChangePin that matched the old PIN hash and *)
(* accepted the new PIN, to the hash of that PIN; every other step,         *)
(* failing commands included, leaves pin_hash as it was.                    *)
C32_Step ==
    /\ IsSome(state.pin_hash) => IsSome(state'.pin_hash)
    /\ state'.pin_hash # state.pin_hash
          => /\ Answered /\ NewResponse.res.ok
             /\ IF IsSome(state.pin_hash)
                THEN /\ IsClientPin(NewResponse, {"ChangePin"})
                     /\ NewResponse.pin_hash_check = "match"
                ELSE IsClientPin(NewResponse, {"SetPin"})
             /\ ~BadNewPin(NewResponse.req)
             /\ state'.pin_hash = Some(NewPinHash(NewResponse.req))
C32_PinHashChanges == [][C32_Step]_vars

\* a ChangePin replaced the hash of Pin1 by the hash of Pin2
C32_Witness ==
    /\ send # <<>>
    /\ IsClientPin(LastResponse, {"ChangePin"}) /\ LastResponse.res.ok
    /\ LastResponse.req.pin_hash_enc
          = Some(AesEnc(PlatformShared(CurrentKak), Left16(Sha256(Pin1))))
    /\ state.pin_hash = Some(Left16(Sha256(Pin2)))

----------------------------------------------------------------------------
(* The life of the key agreement key *)

(* C33: the key agreement key poll() made sure of is replaced only by a      *)
(* GetPinToken or ChangePin whose PIN-hash comparison mismatched; every     *)
(* other command, successful or refused, leaves the handle as it was, and a *)
(* GetKeyAgreement reports the public key of that handle.                   *)
C33_Step ==
    /\ IsSome(state.key_agreement_key) => IsSome(state'.key_agreement_key)
    /\ state'.key_agreement_key \notin {state.key_agreement_key,
                                        Ensured.state.key_agreement_key}
          => /\ Answered /\ IsPinCheck(NewResponse)
             /\ NewResponse.pin_hash_check = "mismatch"
    /\ Answered /\ IsClientPin(NewResponse, {"GetKeyAgreement"})
          => /\ NewResponse.res.ok
             /\ NewResponse.res.val.key_agreement
                   = Some(PubOf(Unwrap(Ensured.state.key_agreement_key).a))
C33_RotationOnlyOnMismatch == [][C33_Step]_vars

\* a GetKeyAgreement after a PIN was set and a mismatch had rotated the key
\* once: it reports the public key of the second handle, which is still the
\* current one
C33_Witness ==
    /\ send # <<>>
    /\ IsClientPin(LastResponse, {"GetKeyAgreement"}) /\ LastResponse.res.ok
    /\ LastResponse.res.val.key_agreement = Some(PubOf(2))
    /\ state.key_agreement_key = Some(GenHandle(2))
    /\ IsSome(state.pin_hash)

----------------------------------------------------------------------------
(* The keys that are created once: key_encryption_key and pin_token.  The   *)
(* host sets and changes the PIN, fetches the PIN token, guesses the PIN    *)
(* until no retry is left, enrols a credential and asks for assertions.     *)

\* the host submits no further request once the key store holds this many
\* keys: room for the token, a credential and eight rotations
MaxKeysLong == 12

KeysPinRequests ==
    LET k == CurrentKak IN
    {SetPinRequest(k, k, Padded(Pin1)),
     GetPinTokenRequest(k, Pin1), GetPinTokenRequest(k, Pin2),
     ChangePinRequest(k, k, Pin1, Padded(Pin2))}

KeysCredentialRequests ==
    {MakeCredentialRequest(<<COSE_P256>>, None, None, a[1], a[2]) :
        a \in {<<None, None>>, <<Some(TokenPinAuth), Some(1)>>}}
    \cup {GetAssertionRequest("example.com", Some(<<id>>), None, a[1], a[2]) :
            id \in issued, a \in {<<None, None>>, <<Some(TokenPinAuth), Some(1)>>}}

HostSubmitLong(request) ==
    /\ ~halted /\ recv = <<>> /\ send = <<>>
    /\ Len(crypto.keys) < MaxKeysLong
    /\ request.kind = "MakeCredential" => made < MaxMade
    /\ recv' = Append(recv, request)
    /\ made' = IF request.kind = "MakeCredential" THEN made + 1 ELSE made
    /\ UNCHANGED <<state, crypto, send, halted, issued, wrong_kaks, pending>>

HostKeysPin == \E request \in KeysPinRequests : HostSubmitLong(request)

HostKeysCredential == \E request \in KeysCredentialRequests : HostSubmitLong(request)

NextKeys == HostKeysPin \/ HostKeysCredential \/ PollHealthy \/ HostReceive

SpecKeys == Init /\ [][NextKeys]_vars

\* the pin_auth a platform computes over the client data hash with the PIN
\* token the authenticator holds
HeldTokenPinAuth == PlatformPinAuth(Unwrap(state.pin_token), ClientDataHash)

C34_Kept ==
    /\ \A id \in issued :
          \E credential \in StoredCredentials :
             Validated(credential.rp_id, id) = <<credential>>
    /\ IsSome(state.pin_token) /\ IsSome(state.pin_hash)
          => PrechecksOf(None, Some(HeldTokenPinAuth), Some(1)).v = Ok(TRUE)

C34_Step ==
    /\ IsSome(state.key_encryption_key)
          => state'.key_encryption_key = state.key_encryption_key
    /\ IsSome(state.pin_token) => state'.pin_token = state.pin_token
    /\ Answered /\ IsClientPin(NewResponse, {"GetPinToken"}) /\ NewResponse.res.ok
          => /\ IsSome(state'.pin_token)
             /\ Unwrap(NewResponse.res.val.pin_token).pt = Unwrap(state'.pin_token)

(* C34: key_encryption_key and pin_token, once created, are never replaced:  *)
(* every credential id the host received still decrypts to its credential   *)
(* under the request's rp id, a successful GetPinToken hands out the one    *)
(* PIN token, and a pin_auth computed with it passes pin_prechecks in every *)
(* state with a PIN set, whatever retries and the PIN are by then.          *)
C34_KeysCreatedOnce == []C34_Kept /\ [][C34_Step]_vars

\* no retry is left, the PIN was changed since the token was handed out, a
\* credential id was issued: the id still decrypts and the token's pin_auth
\* still passes
C34_Witness ==
    /\ state.retries = Some(0)
    /\ state.pin_hash = Some(Left16(Sha256(Pin2)))
    /\ IsSome(state.pin_token)
    /\ issued # {}
    /\ \A id \in issued : Validated("example.com", id) # <<>>
    /\ PrechecksOf(None, Some(HeldTokenPinAuth), Some(1)).v = Ok(TRUE)

----------------------------------------------------------------------------
(* What MakeCredential and GetAssertion leave alone *)

(* C35: a MakeCredential or GetAssertion, whatever it answers, leaves        *)
(* retries, consecutive_pin_mismatches and pin_hash as they were and the    *)
(* key agreement key as poll() found or created it; the PIN counters change *)
(* only in steps that answer a ClientPin command.                           *)
C35_Step ==
    /\ Answered /\ NewResponse.req.kind \in {"MakeCredential", "GetAssertion"}
          => /\ state'.retries = state.retries
             /\ state'.consecutive_pin_mismatches = state.consecutive_pin_mismatches
             /\ state'.pin_hash = state.pin_hash
             /\ state'.key_agreement_key = Ensured.state.key_agreement_key
    /\ state'.retries # state.retries
       \/ state'.consecutive_pin_mismatches # state.consecutive_pin_mismatches
          => Answered /\ NewResponse.req.kind = "ClientPin"
C35_PinStateFrame == [][C35_Step]_vars

\* a MakeCredential whose pin_auth failed verification was answered after
\* three wrong PINs: the counters are still 5 and 3
C35_Witness ==
    /\ send # <<>>
    /\ LastResponse.req.kind = "MakeCredential"
    /\ LastResponse.res.err = "PinAuthInvalid"
    /\ state.retries = Some(5)
    /\ state.consecutive_pin_mismatches = 3

----------------------------------------------------------------------------
(* User verification follows the PIN *)

\* the request carries the pin_auth of protocol 1 that verify_pin computes
\* with the PIN token the authenticator holds after the command
VerifiedPinAuth(request) ==
    /\ IsSome(request.pin_auth) /\ request.pin_protocol = Some(1)
    /\ IsSome(state'.pin_token)
    /\ Unwrap(request.pin_auth) =
          PlatformPinAuth(Unwrap(state'.pin_token), request.client_data_hash)

\* pin_prechecks passes with uv_performed = true exactly where a PIN is set
C36_UvIsPin ==
    \A options \in OptionChoices : \A a \in PinAuthChoices :
        Let([r \in {PrechecksOf(options, a[1], a[2])} |->
        ~r.panic /\ r.v.ok => r.v.val = IsSome(state.pin_hash)])

C36_Step ==
    /\ Answered /\ NewResponse.req.kind = "MakeCredential" /\ NewResponse.res.ok
          => /\ "UV" \in NewResponse.res.val.auth_data.flags <=> IsSome(state.pin_hash)
             /\ IsSome(state.pin_hash) => VerifiedPinAuth(NewResponse.req)
    /\ Dequeued /\ NextIsGetAssertion /\ IsSome(state.pin_hash)
          => /\ PrechecksPass => VerifiedPinAuth(Head(recv))
             /\ Answered /\ NewResponse.res.err \notin PrecheckErrors => PrechecksPass

(* C36: pin_prechecks passes with uv_performed = false only where no PIN is  *)
(* set and with uv_performed = true only where one is set; with a PIN set a *)
(* MakeCredential succeeds, and a GetAssertion gets past the prechecks,     *)
(* only with a pin_auth that verifies, and a successful MakeCredential has  *)
(* the UV flag exactly when a PIN was set.                                  *)
C36_UserVerification == []C36_UvIsPin /\ [][C36_Step]_vars

\* a MakeCredential with the pin_auth of the PIN token succeeded with a PIN
\* set, and its authenticator data has the UV flag
C36_Witness ==
    /\ send # <<>>
    /\ LastResponse.req.kind = "MakeCredential" /\ LastResponse.res.ok
    /\ IsSome(state.pin_hash) /\ IsSome(state.pin_token)
    /\ LastResponse.req.pin_auth = Some(HeldTokenPinAuth)
    /\ "UV" \in LastResponse.res.val.auth_data.flags
    /\ issued = {}

====
